---- MODULE Spec2Model ----
(***************************************************************************)
(* Noise-complaint classification pipeline of streamlit-maps:              *)
(*   NLP_Tokenization.py             Tokenizer                             *)
(*   NLP_Classification_modalidade.py Keyword Category Matcher,            *)
(*                                   Time-Window Inferencer,               *)
(*                                   Rule Classifier                       *)
(*   pages/4_NLP_Filtros_&_Histogramas.py  User-Defined Rule Engine        *)
(*                                                                         *)
(* Strings are Python str values.  Python lists and tuples are sequences,  *)
(* Python sets are sets, and a Python dict (insertion-ordered) is a        *)
(* sequence of entries in insertion order.                                 *)
(***************************************************************************)
EXTENDS Integers, Sequences, FiniteSets, TLC

VARIABLES
    \* --- Keyword Category Matcher / Time-Window Inferencer called directly
    tokens,       \* argument `tokens`
    categories,   \* argument `categories`
    matches,      \* value returned by _match_categories
    result,       \* MatchResult returned by _select_best
    windows,      \* list returned by _extract_time_windows
    mpc,          \* "input" | "matched" | "selected" | "windows" | "idle"
    \* --- Tokenizer run and Rule Classifier run over the record files
    geojson,      \* content of GEOJSON_PATH
    output,       \* content of OUTPUT_GEOJSON_PATH
    source,       \* the content of GEOJSON_PATH that the last main() read
    tokenized,    \* process_geojson() has completed on GEOJSON_PATH
    nltk_data,    \* the NLTK stopwords corpus: "installed" | "downloadable" | "missing"
    spacy_model,  \* pt_core_news_lg is installed
    stopword_loads, \* calls of nltk.corpus.stopwords.words in the last process_geojson()
    loaded,       \* language resources that the last process_geojson() loaded
    error,        \* exception that ended the last run of either program, or "none"
    \* --- User-Defined Rule Engine: _match_rule called directly
    row,          \* argument `row`
    rule,         \* argument `rule`
    matched,      \* value returned by _match_rule
    rpc,          \* "input" | "done" | "idle"
    \* --- User-Defined Rule Engine: the page and its session
    df,               \* the DataFrame of load_data()
    custom_rules,     \* st.session_state["custom_rules"]
    custom_rules_col, \* column "custom_rules" of `filtered` in the last page run
    event,            \* the widget event of the last page run: form submit or button
    \* --- Text Cluster Engine: build_cluster_model and describe_clusters called directly
    texts,            \* argument `texts`
    cluster_labels,   \* labels returned by build_cluster_model
    vectorizer,       \* TfidfVectorizer returned by build_cluster_model, or None
    model,            \* KMeans model returned by build_cluster_model, or None
    cluster_terms,    \* dict returned by describe_clusters
    cpc,              \* "input" | "built" | "described" | "idle"
    \* --- Spatial Cluster Engine: one run of a clustering page
    page,             \* "3" (3_Machine_Learning.py) | "9" (9_ML_K-Means_Clustering.py) | "none"
    df_raw,           \* number of rows of load_data(): the valid points
    min_samples,      \* slider "Tamanho mínimo de cluster (OPTICS)"
    cluster_count,    \* slider "Número de clusters (K-Means)"
    optics_labels,    \* run_optics(df_raw, min_samples): one label per row, -1 is noise
    df_clean,         \* column optics_cluster of the rows that are not noise
    medians_by_optics,\* one row [cluster, quantidade] per density cluster
    kmeans_labels,    \* column kmeans_cluster of df_clean
    optics_to_kmeans, \* predominant K-Means id of each density cluster
    centroids_display,\* the centroid table: rows [cluster, quantidade, cluster_kmeans]
    wcss,             \* list returned by compute_wcss
    warning,          \* st.warning shown before st.stop(), or "none"
    raised,           \* exception that ended the run, or "none"
    spc,              \* "load" | "optics" | "medians" | "kmeans" | "elbow" | "done"
                      \* | "stopped" | "raised" | "idle"
    \* --- Loaders of the feature collection: one call of a loader
    loader,           \* "page3" | "page4" | "home" | "none"
    collection,       \* the list under "features": the geometry of each feature
    records,          \* the list `records`: positions of the features appended
    load_error,       \* exception raised by the loop, or "none"
    lpc               \* "call" | "loaded" | "raised" | "idle"

matcherVars == <<tokens, categories, matches, result, windows, mpc>>
pipelineVars == <<geojson, output, source, tokenized, nltk_data, spacy_model,
                  stopword_loads, loaded, error>>
ruleVars == <<row, rule, matched, rpc>>
pageVars == <<df, custom_rules, custom_rules_col, event>>
clusterVars == <<texts, cluster_labels, vectorizer, model, cluster_terms, cpc>>
spatialVars == <<page, df_raw, min_samples, cluster_count, optics_labels, df_clean,
                 medians_by_optics, kmeans_labels, optics_to_kmeans, centroids_display,
                 wcss, warning, raised, spc>>
loaderVars == <<loader, collection, records, load_error, lpc>>
vars == <<matcherVars, pipelineVars, ruleVars, pageVars, clusterVars, spatialVars,
          loaderVars>>

\* A file: whether it exists, and the list under its "features" key.
NoFile == [exists |-> FALSE, features |-> <<>>]
File(features) == [exists |-> TRUE, features |-> features]

\* The matcher is not called directly.
MatcherIdle ==
    /\ tokens = <<>>
    /\ categories = <<>>
    /\ matches = <<>>
    /\ result = [label |-> "<None>", score |-> 0, matched_terms |-> <<>>]
    /\ windows = <<>>
    /\ mpc = "idle"

\* The language resources are installed and no run has used them.
ResourcesInstalled ==
    /\ nltk_data = "installed"
    /\ spacy_model = TRUE
    /\ stopword_loads = 0
    /\ loaded = {}
    /\ error = "none"

\* No pipeline run takes place.
PipelineIdle ==
    /\ geojson = NoFile
    /\ output = NoFile
    /\ source = NoFile
    /\ tokenized = FALSE
    /\ ResourcesInstalled

\* _match_rule is not called directly.
RuleIdle ==
    /\ row = [fonte_contexto |-> "", fonte_audio |-> "", fonte_horario |-> <<>>,
              descricao_tokens |-> <<>>]
    /\ rule = [keys |-> {}, name |-> "", contexts |-> {}, audios |-> {},
               tokens |-> {}, times |-> {}]
    /\ matched = FALSE
    /\ rpc = "idle"

\* The page is not open.
PageIdle ==
    /\ df = <<>>
    /\ custom_rules = <<>>
    /\ custom_rules_col = <<>>
    /\ event = [kind |-> "none", name |-> "", idx |-> 0]

\* No loader is called.
LoaderIdle ==
    /\ loader = "none"
    /\ collection = <<>>
    /\ records = <<>>
    /\ load_error = "none"
    /\ lpc = "idle"

\* A vectorizer and a K-Means model: None, or fitted.
NoVectorizer == [fitted |-> FALSE, vocabulary |-> <<>>]
NoModel == [fitted |-> FALSE, n_clusters |-> 0, cluster_centers_ |-> <<>>]

\* The cluster engine is not called directly.
ClusterIdle ==
    /\ texts = <<>>
    /\ cluster_labels = <<>>
    /\ vectorizer = NoVectorizer
    /\ model = NoModel
    /\ cluster_terms = <<>>
    /\ cpc = "idle"

\* No clustering page runs.
SpatialIdle ==
    /\ page = "none"
    /\ df_raw = 0
    /\ min_samples = 15
    /\ cluster_count = 4
    /\ optics_labels = <<>>
    /\ df_clean = <<>>
    /\ medians_by_optics = <<>>
    /\ kmeans_labels = <<>>
    /\ optics_to_kmeans = <<>>
    /\ centroids_display = <<>>
    /\ wcss = <<>>
    /\ warning = "none"
    /\ raised = "none"
    /\ spc = "idle"

(***************************************************************************)
(* Python string primitives on the strings of the model.                   *)
(***************************************************************************)

\* bool(s) of a str: the empty string is falsy.
Truthy(s) == s # ""

\* The mixed-case strings of the model with their str.lower() value.
CaseTable ==
    { <<"ALARME", "alarme">>, <<"SIRENE", "sirene">>, <<"Comercio", "comercio">>,
      <<"INDUSTRIA", "industria">>, <<"22H", "22h">>, <<"SÁBADO", "sábado">>,
      <<"ALTO", "alto">>, <<"Som", "som">>, <<"FESTA", "festa">>,
      <<"Sábado", "sábado">>, <<"Reclamações", "reclamações">>,
      <<"HTTP://Ruido.com/x", "http://ruido.com/x">> }

\* str.lower(): identity on strings that hold no upper-case letter.
lower(s) ==
    IF \E p \in CaseTable : p[1] = s
    THEN (CHOOSE p \in CaseTable : p[1] = s)[2]
    ELSE s

\* The lower-case strings of the model in ascending code-point order, the
\* order of Python's str comparison.
CodepointOrder ==
    << "", " ", "22h", "alarme", "alto", "bar", "comercio", "festa",
       "http://ruido.com/x", "industria", "ir", "madrugada", "noite", "sirene",
       "som", "sábado" >>

StrRank(s) == CHOOSE i \in DOMAIN CodepointOrder : CodepointOrder[i] = s

\* s < t for Python str
StrLess(s, t) == StrRank(s) < StrRank(t)

\* tuple(sorted(S)) for a set of str
RECURSIVE sorted(_)
sorted(S) ==
    IF S = {} THEN <<>>
    ELSE LET least == CHOOSE x \in S : \A y \in S \ {x} : StrLess(x, y)
         IN  <<least>> \o sorted(S \ {least})

(***************************************************************************)
(* Category dictionaries (NLP_Classification_modalidade.py).               *)
(***************************************************************************)

CONTEXT_KEYWORDS ==
    << [label |-> "bar_evento", keywords |->
          {"bar", "bares", "churrasco", "festa", "balada", "residencia",
           "residencial", "comercio", "comércio", "evento", "lanchonete",
           "restaurante", "pub", "boteco", "adega", "cervejaria", "choperia",
           "boate", "lounge", "taproom", "estabelecimento", "pizzaria",
           "cafeteria"}],
       [label |-> "igreja_templo", keywords |->
          {"igreja", "templo", "missa", "culto", "pastor", "louvor",
           "celebracao", "celebração", "evangelico", "evangélico", "paroquia",
           "paróquia"}],
       [label |-> "obra_construcao", keywords |->
          {"obra", "obras", "construção", "construcao", "construcão",
           "construir", "construtora", "reforma", "reformar", "bairro",
           "prédio", "predio"}],
       [label |-> "industria_servico", keywords |->
          {"industria", "indústria", "usina", "empresa", "comercio",
           "comércio", "fabrica", "fábrica", "oficina", "serralheria",
           "metalurgica", "metalúrgica"}],
       [label |-> "via_publica", keywords |->
          {"rua", "avenida", "cruzamento", "praça", "rotatória", "semáforo",
           "semáfaro", "pista", "rodovia", "estrada"}],
       [label |-> "residencial", keywords |->
          {"casa", "vizinho", "apartamento", "condominio", "condomínio",
           "prédio", "predio", "sobrado"}],
       [label |-> "area_lazer", keywords |->
          {"quadra", "campo", "ginásio", "parque", "praça", "club", "clube"}],
       [label |-> "veiculos_transito", keywords |->
          {"carro", "moto", "motocicleta", "caminhao", "caminhão", "veiculo",
           "veículo", "ônibus", "van", "trio", "caminhonete"}] >>

AUDIO_KEYWORDS ==
    << [label |-> "musica", keywords |->
          {"musica", "música", "som", "vivo", "banda", "show", "voz", "cantor",
           "cantora", "dj", "palco", "instrumento", "instrumental", "ensaio",
           "acustico", "acústico", "microfone", "teclado", "violão", "violino",
           "percussão", "percussao", "karaoke", "karaokê", "caixa", "caixas",
           "ritmo"}],
       [label |-> "maquinario", keywords |->
          {"maquina", "máquina", "gerador", "compressor", "serra", "martelo",
           "martelar", "martelete", "furadeira", "betoneira", "britadeira",
           "perfurar", "perfuratriz", "trator", "equipamento", "indústria"}],
       [label |-> "veiculo", keywords |->
          {"carro", "moto", "motocicleta", "automotivo", "escapamento", "ronco",
           "motor", "sirene", "acelerar", "buzina", "caminhao", "caminhão",
           "ônibus", "van", "trio"}],
       [label |-> "alarme", keywords |->
          {"alarme", "disparo", "disparar", "sirene", "sensor", "bip",
           "estacionamento", "garagem", "entrada", "saida", "saída", "portaria",
           "vigia", "monitoramento"}],
       [label |-> "animal", keywords |->
          {"cachorro", "cao", "cão", "latido", "latir", "galo", "galinha",
           "papagaio", "animal"}],
       [label |-> "fogos", keywords |->
          {"fogos", "artificio", "artifício", "estouro", "rojão", "rojões",
           "pirotecnia", "foguete"}],
       [label |-> "vozes_aglomeracao", keywords |->
          {"falar", "grito", "gritar", "aplausos", "torcida", "multidão",
           "pessoas", "cliente", "frequente", "risada", "aglomeração",
           "aglomeraçao", "bate-papo", "palmas"}] >>

TIME_KEYWORDS ==
    << [label |-> "manha", keywords |-> {"manhã", "manha", "7h", "6h", "8h", "9h"}],
       [label |-> "tarde", keywords |-> {"tarde", "15h", "16h", "17h"}],
       [label |-> "noite", keywords |->
          {"noite", "19h", "20h", "21h", "22h", "23h"}],
       [label |-> "madrugada", keywords |->
          {"madrugada", "00h", "01h", "02h", "03h", "04h", "05h"}],
       [label |-> "fim_de_semana", keywords |->
          {"sábado", "sabado", "domingo", "feriado"}] >>

(***************************************************************************)
(* Keyword Category Matcher and Time-Window Inferencer.                    *)
(***************************************************************************)

\* MatchResult.label = None
None == "<None>"

\* @dataclass MatchResult
MatchResult(label, score, matched_terms) ==
    [label |-> label, score |-> score, matched_terms |-> matched_terms]

\* Mutant of TokenSet: the tokens are not case-folded.
TokenSet_nolower(toks) == { toks[i] : i \in { j \in DOMAIN toks : Truthy(toks[j]) } }

\* {str(tok).lower() for tok in tokens if tok}
TokenSet(toks) == { lower(toks[i]) : i \in { j \in DOMAIN toks : Truthy(toks[j]) } }

\* The dict `matches`: one entry per category whose overlap is non-empty,
\* in the iteration order of `categories`.
RECURSIVE MatchLoop(_, _, _)
MatchLoop(token_set, cats, i) ==
    IF i > Len(cats) THEN <<>>
    ELSE LET overlap == token_set \cap cats[i].keywords
         IN  (IF overlap # {}
              THEN << [label |-> cats[i].label, overlap |-> overlap] >>
              ELSE <<>>) \o MatchLoop(token_set, cats, i + 1)

_match_categories(toks, cats) == MatchLoop(TokenSet(toks), cats, 1)

\* The loop of _select_best from entry i on, with the best result so far.
RECURSIVE SelectLoop(_, _, _)
SelectLoop(ms, i, best) ==
    IF i > Len(ms) THEN best
    ELSE LET score == Cardinality(ms[i].overlap)
         IN  SelectLoop(ms, i + 1,
                        IF score > best.score
                        THEN MatchResult(ms[i].label, score, sorted(ms[i].overlap))
                        ELSE best)

\* Mutant of _select_best: the first matching category wins whatever its score.
_select_best_first(ms) ==
    IF ms = <<>> THEN MatchResult(None, 0, <<>>)
    ELSE MatchResult(ms[1].label, Cardinality(ms[1].overlap), sorted(ms[1].overlap))

\* Mutant of _select_best: `score >= best_score`, the last of the tied wins.
RECURSIVE SelectLoop_geq(_, _, _)
SelectLoop_geq(ms, i, best) ==
    IF i > Len(ms) THEN best
    ELSE LET score == Cardinality(ms[i].overlap)
         IN  SelectLoop_geq(ms, i + 1,
                            IF score >= best.score
                            THEN MatchResult(ms[i].label, score, sorted(ms[i].overlap))
                            ELSE best)

_select_best_last(ms) == SelectLoop_geq(ms, 1, MatchResult(None, 0, <<>>))

\* Mutant of _select_best: the result carries the label and the terms of the
\* best category and a score of 0.
_select_best_noscore(ms) ==
    LET best == SelectLoop(ms, 1, MatchResult(None, 0, <<>>))
    IN  MatchResult(best.label, 0, best.matched_terms)

_select_best(ms) == SelectLoop(ms, 1, MatchResult(None, 0, <<>>))

RECURSIVE WindowLoop(_, _)
WindowLoop(token_set, i) ==
    IF i > Len(TIME_KEYWORDS) THEN <<>>
    ELSE (IF token_set \cap TIME_KEYWORDS[i].keywords # {}
          THEN << TIME_KEYWORDS[i].label >>
          ELSE <<>>) \o WindowLoop(token_set, i + 1)

\* Mutant of _extract_time_windows: the loop stops at the first window found.
_extract_time_windows_exclusive(toks) ==
    LET all == WindowLoop(TokenSet(toks), 1)
    IN  IF all = <<>> THEN <<>> ELSE << all[1] >>

_extract_time_windows(toks) == WindowLoop(TokenSet(toks), 1)

(***************************************************************************)
(* Inputs of the direct calls.                                             *)
(***************************************************************************)

MaxLen == 3

\* Tokens handed to the matcher: an empty token, keywords shared by two
\* categories ("comercio", "sirene"), keywords that lift a later category
\* above an earlier one ("industria", "ALARME"), time markers, a word of no
\* dictionary, and an upper-case spelling.
TokenUniverse ==
    {"", "comercio", "industria", "sirene", "ALARME", "22h", "sábado", "alto"}

RECURSIVE SeqsUpTo(_, _)
SeqsUpTo(S, n) ==
    IF n = 0 THEN { <<>> }
    ELSE LET shorter == SeqsUpTo(S, n - 1)
         IN  shorter \cup { Append(s, x) : s \in { t \in shorter : Len(t) = n - 1 }, x \in S }

TokenSeqs == SeqsUpTo(TokenUniverse, MaxLen)

\* Two-category dictionaries over a few keywords, with empty keyword sets,
\* equal sets and nested sets, and the dictionary with no category.
SmallKeywordSets == { {}, {"sirene"}, {"sirene", "alarme"}, {"alarme", "comercio", "alto"} }

SmallDictionaries ==
    { << [label |-> "k1", keywords |-> a], [label |-> "k2", keywords |-> b] >> :
        a \in SmallKeywordSets, b \in SmallKeywordSets } \cup { <<>> }

Dictionaries == { CONTEXT_KEYWORDS, AUDIO_KEYWORDS, TIME_KEYWORDS } \cup SmallDictionaries

InitMatcher ==
    /\ tokens \in TokenSeqs
    /\ categories \in Dictionaries
    /\ matches = <<>>
    /\ result = MatchResult(None, 0, <<>>)
    /\ windows = <<>>
    /\ mpc = "input"
    /\ PipelineIdle
    /\ ClusterIdle
    /\ SpatialIdle
    /\ LoaderIdle
    /\ RuleIdle
    /\ PageIdle

MatchCategories ==
    /\ mpc = "input"
    /\ matches' = _match_categories(tokens, categories)
    /\ mpc' = "matched"
    /\ UNCHANGED <<tokens, categories, result, windows, pipelineVars, ruleVars, pageVars, clusterVars, spatialVars, loaderVars>>

SelectBest ==
    /\ mpc = "matched"
    /\ result' = _select_best(matches)
    /\ mpc' = "selected"
    /\ UNCHANGED <<tokens, categories, matches, windows, pipelineVars, ruleVars, pageVars, clusterVars, spatialVars, loaderVars>>

ExtractTimeWindows ==
    /\ mpc = "input"
    /\ windows' = _extract_time_windows(tokens)
    /\ mpc' = "windows"
    /\ UNCHANGED <<tokens, categories, matches, result, pipelineVars, ruleVars, pageVars, clusterVars, spatialVars, loaderVars>>

NextMatcher == MatchCategories \/ SelectBest \/ ExtractTimeWindows

SpecMatcher == InitMatcher /\ [][NextMatcher]_vars

(***************************************************************************)
(* Properties of the Keyword Category Matcher and Time-Window Inferencer.  *)
(***************************************************************************)

Range(seq) == { seq[i] : i \in DOMAIN seq }

\* The case-folded, deduplicated token set of a token sequence.
FoldedTokens(toks) == { lower(t) : t \in Range(toks) } \ {""}

\* The keywords of category i of the dictionary that occur among the tokens.
Hits(toks, cats, i) == FoldedTokens(toks) \cap cats[i].keywords

\* The largest intersection size over the categories of the dictionary.
MaxHits(toks, cats) ==
    IF cats = <<>> THEN 0
    ELSE LET sizes == { Cardinality(Hits(toks, cats, i)) : i \in DOMAIN cats }
         IN  CHOOSE m \in sizes : \A n \in sizes : n <= m

\* The categories whose intersection has the largest size.
Tied(toks, cats) ==
    { i \in DOMAIN cats : Cardinality(Hits(toks, cats, i)) = MaxHits(toks, cats) }

\* The other spelling of a token: lower case <-> the mixed-case spelling.
SwapCase(t) ==
    IF \E p \in CaseTable : p[1] = t THEN lower(t)
    ELSE IF \E p \in CaseTable : p[2] = t
         THEN (CHOOSE p \in CaseTable : p[2] = t)[1]
         ELSE t

\* Token sequences that repeat a token of toks, reorder toks, or change the
\* letter case of one of its tokens.
Variants(toks) ==
    { toks \o << toks[i] >> : i \in DOMAIN toks }
    \cup { [k \in DOMAIN toks |-> toks[Len(toks) + 1 - k]] }
    \cup { [k \in DOMAIN toks |-> IF k = i THEN toks[j] ELSE IF k = j THEN toks[i] ELSE toks[k]] :
             i \in DOMAIN toks, j \in DOMAIN toks }
    \cup { [k \in DOMAIN toks |-> IF k = i THEN SwapCase(toks[k]) ELSE toks[k]] :
             i \in DOMAIN toks }

\* C1: the matcher returns a category whose keyword set intersects the
\* case-folded, deduplicated token set, with an intersection at least as
\* large as that of every other category of the dictionary; it returns no
\* label only when no category intersects the token set.
C1_BestCategoryHasLargestIntersection ==
    mpc = "selected" =>
        /\ result.label # None =>
              \E i \in DOMAIN categories :
                  /\ categories[i].label = result.label
                  /\ Hits(tokens, categories, i) # {}
                  /\ \A j \in DOMAIN categories :
                        Cardinality(Hits(tokens, categories, j))
                            <= Cardinality(Hits(tokens, categories, i))
        /\ result.label = None =>
              \A j \in DOMAIN categories : Hits(tokens, categories, j) = {}

\* A later category with two hits was selected over an earlier one with one.
C1_Witness ==
    /\ mpc = "selected"
    /\ result.label # None
    /\ result.score = 2
    /\ \E i \in DOMAIN categories :
          /\ Cardinality(Hits(tokens, categories, i)) = 1
          /\ \E j \in DOMAIN categories : j > i /\ categories[j].label = result.label

\* C2: when two or more categories tie for the largest nonzero intersection
\* size, the matcher selects the tied category that comes first in the
\* dictionary's definition order: ["comercio"] against the context dictionary
\* gives "bar_evento", ["sirene"] against the modality dictionary "veiculo".
C2_TieGoesToFirstInDictionaryOrder ==
    mpc = "selected" =>
        /\ (MaxHits(tokens, categories) > 0 /\ Cardinality(Tied(tokens, categories)) >= 2) =>
              LET first == CHOOSE i \in Tied(tokens, categories) :
                               \A j \in Tied(tokens, categories) : i <= j
              IN  result.label = categories[first].label
        /\ (tokens = << "comercio" >> /\ categories = CONTEXT_KEYWORDS) =>
              result.label = "bar_evento"
        /\ (tokens = << "sirene" >> /\ categories = AUDIO_KEYWORDS) =>
              result.label = "veiculo"

\* ["sirene"] was matched against the modality dictionary: "veiculo" and
\* "alarme" tie with one hit each.
C2_Witness ==
    /\ mpc = "selected"
    /\ tokens = << "sirene" >>
    /\ categories = AUDIO_KEYWORDS
    /\ Cardinality(Tied(tokens, categories)) = 2
    /\ result.label = "veiculo"

\* C3: the score is the number of distinct keywords of the selected category
\* that occur in the token sequence, the matched terms are exactly those
\* keywords, once each, in ascending order, score = length of the terms; and
\* repeating a token, reordering the tokens or changing letter case changes
\* neither label, score nor terms.
C3_ScoreAndTermsAreTheDistinctHits ==
    mpc = "selected" =>
        /\ result.score = Len(result.matched_terms)
        /\ \A a \in DOMAIN result.matched_terms : \A b \in DOMAIN result.matched_terms :
              a < b => StrLess(result.matched_terms[a], result.matched_terms[b])
        /\ result.label # None =>
              \E i \in DOMAIN categories :
                  /\ categories[i].label = result.label
                  /\ result.score = Cardinality(Hits(tokens, categories, i))
                  /\ Range(result.matched_terms) = Hits(tokens, categories, i)
        /\ \A v \in Variants(tokens) :
              _select_best(_match_categories(v, categories)) = result

\* A token given twice, in upper and in lower case, next to a second keyword
\* of the same category: two terms, in ascending order.
C3_Witness ==
    /\ mpc = "selected"
    /\ tokens = << "sirene", "ALARME", "sirene" >>
    /\ categories = AUDIO_KEYWORDS
    /\ result = MatchResult("alarme", 2, << "alarme", "sirene" >>)

\* C4: for any token sequence, the empty one and those holding empty tokens
\* included, the matcher returns a well-formed result: score >= 0 and
\* (label is none) <=> (score = 0) <=> (matched terms is empty).
C4_ResultIsWellFormed ==
    /\ mpc = "input" => ENABLED MatchCategories
    /\ mpc = "matched" => ENABLED SelectBest
    /\ mpc = "selected" =>
          /\ result.score \in Nat
          /\ (result.label = None) <=> (result.score = 0)
          /\ (result.score = 0) <=> (result.matched_terms = <<>>)

\* A sequence holding an empty token and a keyword was matched.
C4_Witness ==
    /\ mpc = "selected"
    /\ \E i \in DOMAIN tokens : tokens[i] = ""
    /\ result.label # None
    /\ result.score > 0

\* C5: the Time-Window Inferencer returns a window label iff that window's
\* keyword set intersects the case-folded token set, each label at most
\* once, with no exclusion between windows: tokens holding "22h" and
\* "sábado" yield both "noite" and "fim_de_semana".
C5_WindowsAreExactlyTheIntersectingOnes ==
    mpc = "windows" =>
        /\ \A i \in DOMAIN TIME_KEYWORDS :
              (TIME_KEYWORDS[i].label \in Range(windows))
                  <=> (Hits(tokens, TIME_KEYWORDS, i) # {})
        /\ Range(windows) \subseteq { TIME_KEYWORDS[i].label : i \in DOMAIN TIME_KEYWORDS }
        /\ Cardinality(Range(windows)) = Len(windows)
        /\ ("22h" \in Range(tokens) /\ "sábado" \in Range(tokens)) =>
              { "noite", "fim_de_semana" } \subseteq Range(windows)

\* Tokens holding "22h" and "sábado" gave two windows.
C5_Witness ==
    /\ mpc = "windows"
    /\ "22h" \in Range(tokens)
    /\ "sábado" \in Range(tokens)
    /\ windows = << "noite", "fim_de_semana" >>

(***************************************************************************)
(* Record files.  A feature is modelled by its "properties" dict: `keys`   *)
(* holds the keys present, and each key has a field with its value.        *)
(***************************************************************************)

DESCRICAO == "Descrição"
TOKEN_PROPERTY == "descricao_tokens"
TYPE_PROPERTY == "Tipo de Fonte Modalidade"
CONTEXT_PROPERTY == "fonte_contexto_sugerido"
CONTEXT_SCORE_PROPERTY == "fonte_contexto_score"
CONTEXT_TERMS_PROPERTY == "fonte_contexto_termos"
MODALITY_PROPERTY == "fonte_modalidade"
MODALITY_SCORE_PROPERTY == "fonte_modalidade_score"
MODALITY_TERMS_PROPERTY == "fonte_modalidade_termos"
TIME_PROPERTY == "fonte_horario"
CLUSTER_PROPERTY == "fonte_cluster"

\* The keys that the rule loop of main() assigns.
RuleKeys ==
    { TYPE_PROPERTY, CONTEXT_PROPERTY, CONTEXT_SCORE_PROPERTY, CONTEXT_TERMS_PROPERTY,
      MODALITY_PROPERTY, MODALITY_SCORE_PROPERTY, MODALITY_TERMS_PROPERTY, TIME_PROPERTY }

\* A description value: JSON null, or a text.  A text is the sequence of its
\* pieces: words, punctuation marks and runs of white space.
Null == [null |-> TRUE, text |-> <<>>]
Text(pieces) == [null |-> FALSE, text |-> pieces]

\* A token-property value: JSON null, a list of strings, or another JSON
\* value that is not a list (a non-empty string, a number, an object).
TokNull == [kind |-> "null", items |-> <<>>]
TokList(items) == [kind |-> "list", items |-> items]
TokOther == [kind |-> "other", items |-> <<>>]

Props(keys, descricao, toks) ==
    [ keys |-> keys, descricao |-> descricao, descricao_tokens |-> toks,
      tipo |-> "", contexto |-> "", contexto_score |-> 0, contexto_termos |-> <<>>,
      modalidade |-> "", modalidade_score |-> 0, modalidade_termos |-> <<>>,
      horario |-> <<>>, cluster |-> "" ]

(***************************************************************************)
(* Tokenizer (NLP_Tokenization.py).                                        *)
(***************************************************************************)

\* str.strip() on the strings of the model: identity on strings with no
\* leading or trailing white space.
strip(s) ==
    CASE s = " " -> ""
      [] s = "   " -> ""
      [] s = " bar_evento " -> "bar_evento"
      [] s = "musica " -> "musica"
      [] OTHER -> s

\* URL_REGEX = re.compile(r"https?://\\S+|www\\.\\S+", re.IGNORECASE): in the
\* raw string `\\` is an escaped backslash, so the pattern asks for a literal
\* backslash followed by one or more letters S after "http://", and for
\* "www", a backslash, any character, a backslash and letters S.  Of the
\* pieces of the model it matches "http://\S" and "www\.\S" and no URL.
URL_REGEX_search(s) == s \in { "http://\\S", "www\\.\\S" }

\* URL_REGEX.sub(" ", text): a piece the pattern matches whole becomes " ".
URL_REGEX_sub(text) ==
    [ i \in DOMAIN text |-> IF URL_REGEX_search(text[i]) THEN " " ELSE text[i] ]

\* ALPHA_REGEX = [a-zà-ú]{2,}: the string holds two adjacent letters.
ALPHA_REGEX_search(s) == s \notin { "", " ", "   ", ",", "22h", "10", "q" }

\* any(ch.isdigit() for ch in raw)
HasDigit(s) == s \in { "22h", "10" }

IR_FORMS == { "vou", "vais", "vai", "vamos", "ides", "vão" }

\* nltk.corpus.stopwords.words("portuguese"): the entries of the corpus that
\* the texts of the model use.
nltk_portuguese == { "de", "a", "o", "que", "e", "muito", "não", "com" }

extras ==
    { "'", "pra", "eh", "vcs", "lá", "né", "q", "o", "tá", "co", "t", "s", "rt",
      "pq", "ta", "tô", "ihh", "ih", "otc", "vc", "barulho", "https", "n", "qdo",
      "hj", "tb", "dia", "noite", "madrugada", "todo", "durante", "pois", "vez",
      "outro", "poder", "ficar", "fazer", "solicitar", "pedido", "pedir",
      "reclamar", "reclamação", "prefeitura", "protocolo", "urgente",
      "providência", "providencia" }

_ensure_stopwords == { lower(w) : w \in nltk_portuguese } \cup extras

\* spaCy's analysis of one piece of a lower-cased text (pt_core_news_lg).
SpacyToken(text, lemma, is_space, is_punct, like_num) ==
    [ text |-> text, lemma_ |-> lemma, is_space |-> is_space,
      is_punct |-> is_punct, like_num |-> like_num ]

Word(text, lemma) == SpacyToken(text, lemma, FALSE, FALSE, FALSE)

Lexicon ==
    { Word("som", "som"), Word("alto", "alto"), Word("festas", "festa"),
      Word("sirene", "sirene"), Word("noite", "noite"), Word("noites", "noite"), Word("22h", "22h"),
      Word("sábado", "Sábado"), Word("vamos", "vamos"), Word("barulho", "barulho"),
      Word("de", "de"), Word("reclamações", "reclamação"),
      Word("http://ruido.com/x", "http://ruido.com/x"),
      SpacyToken(",", ",", FALSE, TRUE, FALSE),
      SpacyToken("10", "10", FALSE, FALSE, TRUE),
      SpacyToken(" ", " ", TRUE, FALSE, FALSE),
      SpacyToken("   ", "   ", TRUE, FALSE, FALSE) }

\* nlp(text): one token per piece of the text.
nlp(text) == [ i \in DOMAIN text |-> CHOOSE t \in Lexicon : t.text = text[i] ]

\* Mutant of CleanLoop: tokens with digits are kept.
RECURSIVE CleanLoop_keepdigits(_, _, _)
CleanLoop_keepdigits(doc, stopwords, i) ==
    IF i > Len(doc) THEN <<>>
    ELSE LET token == doc[i]
             raw == lower(strip(token.text))
             lemma0 == IF lower(strip(token.lemma_)) # ""
                       THEN lower(strip(token.lemma_)) ELSE raw
             lemma == IF lemma0 \in IR_FORMS THEN "ir" ELSE lemma0
             skip == \/ raw = "" \/ raw \in stopwords
                     \/ token.is_space \/ token.is_punct \/ token.like_num
                     \/ URL_REGEX_search(raw)
                     \/ (~ALPHA_REGEX_search(raw) /\ ~HasDigit(raw))
                     \/ lemma \in stopwords
         IN  (IF skip THEN <<>> ELSE << lemma >>)
             \o CleanLoop_keepdigits(doc, stopwords, i + 1)

\* Mutant of CleanLoop: the lemma is not looked up in the stopwords.
RECURSIVE CleanLoop_rawonly(_, _, _)
CleanLoop_rawonly(doc, stopwords, i) ==
    IF i > Len(doc) THEN <<>>
    ELSE LET token == doc[i]
             raw == lower(strip(token.text))
             lemma0 == IF lower(strip(token.lemma_)) # ""
                       THEN lower(strip(token.lemma_)) ELSE raw
             lemma == IF lemma0 \in IR_FORMS THEN "ir" ELSE lemma0
             skip == \/ raw = "" \/ raw \in stopwords
                     \/ token.is_space \/ token.is_punct \/ token.like_num
                     \/ HasDigit(raw)
                     \/ URL_REGEX_search(raw)
                     \/ ~ALPHA_REGEX_search(raw)
         IN  (IF skip THEN <<>> ELSE << lemma >>)
             \o CleanLoop_rawonly(doc, stopwords, i + 1)

\* The loop of _clean_tokens from token i on.
RECURSIVE CleanLoop(_, _, _)
CleanLoop(doc, stopwords, i) ==
    IF i > Len(doc) THEN <<>>
    ELSE LET token == doc[i]
             raw == lower(strip(token.text))
             lemma0 == IF lower(strip(token.lemma_)) # ""
                       THEN lower(strip(token.lemma_)) ELSE raw
             lemma == IF lemma0 \in IR_FORMS THEN "ir" ELSE lemma0
             skip == \/ raw = "" \/ raw \in stopwords
                     \/ token.is_space \/ token.is_punct \/ token.like_num
                     \/ HasDigit(raw)
                     \/ URL_REGEX_search(raw)
                     \/ ~ALPHA_REGEX_search(raw)
                     \/ lemma \in stopwords
         IN  (IF skip THEN <<>> ELSE << lemma >>) \o CleanLoop(doc, stopwords, i + 1)

_clean_tokens(doc, stopwords) == CleanLoop(doc, stopwords, 1)

\* props.get("Descrição") or "", as a text
DescricaoOf(props) ==
    IF DESCRICAO \in props.keys /\ ~props.descricao.null THEN props.descricao.text ELSE <<>>

\* Mutant of TokenizeFeature: a record that already has a token list keeps it.
TokenizeFeature_keep(props) ==
    IF TOKEN_PROPERTY \in props.keys /\ props.descricao_tokens.kind = "list"
    THEN props
    ELSE [ props EXCEPT
             !.keys = @ \cup { TOKEN_PROPERTY },
             !.descricao_tokens =
                 TokList(_clean_tokens(nlp([ i \in DOMAIN DescricaoOf(props) |->
                                              lower(URL_REGEX_sub(DescricaoOf(props))[i]) ]),
                                       _ensure_stopwords)) ]

\* One iteration of the loop of process_geojson.
TokenizeFeature(props) ==
    LET texto_tratado == [ i \in DOMAIN DescricaoOf(props) |->
                             lower(URL_REGEX_sub(DescricaoOf(props))[i]) ]
        doc == nlp(texto_tratado)
    IN  [ props EXCEPT !.keys = @ \cup { TOKEN_PROPERTY },
                       !.descricao_tokens = TokList(_clean_tokens(doc, _ensure_stopwords)) ]

(***************************************************************************)
(* Rule Classifier (NLP_Classification_modalidade.py, main).               *)
(***************************************************************************)

DEFAULT_CLUSTERS == 6

\* tokens = props.get("descricao_tokens") or []; a value that is not a list
\* gives []; then [str(tok).lower() for tok in tokens if tok].
RECURSIVE LowerTruthy(_, _)
LowerTruthy(items, i) ==
    IF i > Len(items) THEN <<>>
    ELSE (IF Truthy(items[i]) THEN << lower(items[i]) >> ELSE <<>>)
         \o LowerTruthy(items, i + 1)

TokensOf(props) ==
    IF TOKEN_PROPERTY \in props.keys /\ props.descricao_tokens.kind = "list"
    THEN LowerTruthy(props.descricao_tokens.items, 1)
    ELSE <<>>

\* x or "" for a label x
OrEmpty(label) == IF label = None \/ label = "" THEN "" ELSE label

\* Mutant of TypeLabel: the context label stands in when no modality matched.
TypeLabel_context(audio_result, context_result) ==
    IF audio_result.label # None /\ audio_result.label # ""
    THEN audio_result.label
    ELSE IF context_result.label # None THEN context_result.label ELSE "indefinido"

\* if audio_result.label: label = audio_result.label else: label = "indefinido"
TypeLabel(audio_result, context_result) ==
    IF audio_result.label # None /\ audio_result.label # ""
    THEN audio_result.label
    ELSE "indefinido"

\* Mutant of ClassifyFeature: a record that already has a type label keeps
\* its rule fields.
ClassifyFeature_keep(props) ==
    IF TYPE_PROPERTY \in props.keys THEN props
    ELSE LET toks == TokensOf(props)
             context_result == _select_best(_match_categories(toks, CONTEXT_KEYWORDS))
             audio_result == _select_best(_match_categories(toks, AUDIO_KEYWORDS))
         IN  [ props EXCEPT
                 !.keys = @ \cup RuleKeys,
                 !.tipo = TypeLabel(audio_result, context_result),
                 !.contexto = OrEmpty(context_result.label),
                 !.contexto_score = context_result.score,
                 !.contexto_termos = context_result.matched_terms,
                 !.modalidade = OrEmpty(audio_result.label),
                 !.modalidade_score = audio_result.score,
                 !.modalidade_termos = audio_result.matched_terms,
                 !.horario = _extract_time_windows(toks) ]

\* Mutant of ClassifyFeature: the normalised tokens are stored as well.
ClassifyFeature_storetokens(props) ==
    LET toks == TokensOf(props)
        context_result == _select_best(_match_categories(toks, CONTEXT_KEYWORDS))
        audio_result == _select_best(_match_categories(toks, AUDIO_KEYWORDS))
    IN  [ props EXCEPT
            !.keys = @ \cup RuleKeys \cup { TOKEN_PROPERTY },
            !.descricao_tokens = TokList(toks),
            !.tipo = TypeLabel(audio_result, context_result),
            !.contexto = OrEmpty(context_result.label),
            !.contexto_score = context_result.score,
            !.contexto_termos = context_result.matched_terms,
            !.modalidade = OrEmpty(audio_result.label),
            !.modalidade_score = audio_result.score,
            !.modalidade_termos = audio_result.matched_terms,
            !.horario = _extract_time_windows(toks) ]

\* One iteration of the rule loop of main().
ClassifyFeature(props) ==
    LET toks == TokensOf(props)
        context_result == _select_best(_match_categories(toks, CONTEXT_KEYWORDS))
        audio_result == _select_best(_match_categories(toks, AUDIO_KEYWORDS))
    IN  [ props EXCEPT
            !.keys = @ \cup RuleKeys,
            !.tipo = TypeLabel(audio_result, context_result),
            !.contexto = OrEmpty(context_result.label),
            !.contexto_score = context_result.score,
            !.contexto_termos = context_result.matched_terms,
            !.modalidade = OrEmpty(audio_result.label),
            !.modalidade_score = audio_result.score,
            !.modalidade_termos = audio_result.matched_terms,
            !.horario = _extract_time_windows(toks) ]

\* text_repr = " ".join(tokens): a document is kept as its token list.
\* text.strip() is non-empty when a token is not white space.
DocIsEmpty(doc) == \A i \in DOMAIN doc : strip(doc[i]) = ""

Min(a, b) == IF a <= b THEN a ELSE b
Max(a, b) == IF a >= b THEN a ELSE b

\* The label lists KMeans(n_clusters, random_state=42).fit_predict may return
\* for the TF-IDF rows of the documents: one cluster id below n_clusters per
\* document, documents with equal rows in the same cluster.
KMeansLabels(docs, n_clusters) ==
    { l \in [DOMAIN docs -> 0 .. (n_clusters - 1)] :
        \A i \in DOMAIN docs : \A j \in DOMAIN docs : docs[i] = docs[j] => l[i] = l[j] }

\* TfidfVectorizer(token_pattern=r"[^\s]+").fit(texts): the vocabulary is the
\* set of lower-cased pieces of the documents that are not white space, and
\* get_feature_names_out() lists it in sorted order.
TfidfVocabulary(docs) ==
    sorted({ t \in UNION { { lower(docs[i][j]) : j \in DOMAIN docs[i] } : i \in DOMAIN docs } :
               strip(t) # "" })

\* n_clusters = min(DEFAULT_CLUSTERS, max(1, len(texts)))
NClusters(docs) == Min(DEFAULT_CLUSTERS, Max(1, Len(docs)))

\* What build_cluster_model(docs) may return: the labels, the vectorizer (None
\* when it was not fitted) and the K-Means model (None when it was not
\* fitted).  The centres of a fitted model are given by KMeansCenters.
build_cluster_model(docs) ==
    IF docs = <<>>
    THEN { [labels |-> <<>>, vectorizer |-> NoVectorizer, model |-> NoModel] }
    ELSE IF \A i \in DOMAIN docs : DocIsEmpty(docs[i])
         THEN { [labels |-> [ i \in DOMAIN docs |-> 0 ],
                 vectorizer |-> NoVectorizer, model |-> NoModel] }
         ELSE LET n_clusters == NClusters(docs)
                  fitted == [fitted |-> TRUE, vocabulary |-> TfidfVocabulary(docs)]
              IN  IF n_clusters = 1
                  THEN { [labels |-> [ i \in DOMAIN docs |-> 0 ],
                          vectorizer |-> fitted, model |-> NoModel] }
                  ELSE { [labels |-> l, vectorizer |-> fitted,
                          model |-> [fitted |-> TRUE, n_clusters |-> n_clusters,
                                     cluster_centers_ |-> <<>>]] :
                         l \in KMeansLabels(docs, n_clusters) }

\* f"cluster_{label}"
ClusterName(label) ==
    CASE label = 0 -> "cluster_0" [] label = 1 -> "cluster_1" [] label = 2 -> "cluster_2"
      [] label = 3 -> "cluster_3" [] label = 4 -> "cluster_4" [] label = 5 -> "cluster_5"

(***************************************************************************)
(* The Text Cluster Engine called on a corpus.                             *)
(***************************************************************************)

TOP_TERMS_PER_CLUSTER == 10

\* Cluster c holds a document with the term.
Present(docs, labels, c, term) ==
    \E i \in DOMAIN docs : labels[i] = c /\ \E j \in DOMAIN docs[i] : lower(docs[i][j]) = term

\* The weight of term number t (of n) in the centre of cluster c: zero when
\* no member has the term, else one of three profiles over the vocabulary
\* (rising, falling, and a cycle of three weights, which has equal weights).
WeightProfiles == 1 .. 3

CentroidWeight(profile, c, t, n) ==
    CASE profile = 1 -> t
      [] profile = 2 -> n + 1 - t
      [] profile = 3 -> 1 + ((t + c) % 3)

\* model.cluster_centers_ of a model fitted with n_clusters clusters: one row
\* of weights over the vocabulary per cluster id 0 .. n_clusters - 1.
KMeansCenters(docs, labels, n_clusters) ==
    LET terms == TfidfVocabulary(docs)
    IN  { [ c \in 1 .. n_clusters |->
              [ t \in DOMAIN terms |->
                  IF Present(docs, labels, c - 1, terms[t])
                  THEN CentroidWeight(profile, c - 1, t, Len(terms))
                  ELSE 0 ] ] : profile \in WeightProfiles }

\* centroid.argsort()[::-1]: the term numbers by weight, largest first.  The
\* order of equal weights is the sort's: `ties` is "stable" when the
\* ascending sort keeps equal weights in index order (so that the reversal
\* lists them by falling index) and "reversed" for the opposite order.
RECURSIVE ArgsortReversed(_, _, _)
ArgsortReversed(centroid, left, ties) ==
    IF left = {} THEN <<>>
    ELSE LET top == { t \in left : \A u \in left : centroid[u] <= centroid[t] }
             first == IF ties = "stable"
                      THEN CHOOSE t \in top : \A u \in top : u <= t
                      ELSE CHOOSE t \in top : \A u \in top : t <= u
         IN  << first >> \o ArgsortReversed(centroid, left \ { first }, ties)

\* Mutant of TopTerms: the terms are taken from the ascending order.
TopTerms_ascending(centroid, terms, ties) ==
    LET order == ArgsortReversed(centroid, DOMAIN centroid, ties)
        n == Len(order)
        top_ids == [ k \in 1 .. Min(TOP_TERMS_PER_CLUSTER, n) |-> order[n + 1 - k] ]
    IN  [ k \in DOMAIN top_ids |-> terms[top_ids[k]] ]

\* top_ids = centroid.argsort()[::-1][:TOP_TERMS_PER_CLUSTER];
\* cluster_terms[idx] = [terms[i] for i in top_ids]
TopTerms(centroid, terms, ties) ==
    LET order == ArgsortReversed(centroid, DOMAIN centroid, ties)
        top_ids == SubSeq(order, 1, Min(TOP_TERMS_PER_CLUSTER, Len(order)))
    IN  [ k \in DOMAIN top_ids |-> terms[top_ids[k]] ]

\* describe_clusters(model, vectorizer): the dict cluster id -> terms, kept as
\* the list of its values (entry c + 1 is the value of cluster id c).
describe_clusters(m, v, ties) ==
    IF ~m.fitted \/ ~v.fitted
    THEN << <<>> >>
    ELSE [ idx \in DOMAIN m.cluster_centers_ |->
             TopTerms(m.cluster_centers_[idx], v.vocabulary, ties) ]

\* The corpora build_cluster_model is called on: documents that are empty,
\* white space, two words, and eleven words (more than TOP_TERMS_PER_CLUSTER).
MaxDocs == 3

EmptyDoc == <<>>
BlankDoc == << " " >>
ShortDoc == << "som", "alto" >>
LongDoc ==
    << "sirene", "22h", "alarme", "bar", "comercio", "festa", "industria",
       "ir", "madrugada", "noite", "sábado" >>

DocUniverse == { EmptyDoc, BlankDoc, ShortDoc, LongDoc }

InitCluster ==
    /\ MatcherIdle
    /\ PipelineIdle
    /\ RuleIdle
    /\ PageIdle
    /\ SpatialIdle
    /\ LoaderIdle
    /\ texts \in SeqsUpTo(DocUniverse, MaxDocs)
    /\ cluster_labels = <<>>
    /\ vectorizer = NoVectorizer
    /\ model = NoModel
    /\ cluster_terms = <<>>
    /\ cpc = "input"

\* cluster_labels, vectorizer, model = build_cluster_model(docs)
BuildClusterModel ==
    /\ cpc = "input"
    /\ \E built \in build_cluster_model(texts) :
          /\ cluster_labels' = built.labels
          /\ vectorizer' = built.vectorizer
          /\ IF built.model.fitted
             THEN \E centers \in KMeansCenters(texts, built.labels, built.model.n_clusters) :
                     model' = [ built.model EXCEPT !.cluster_centers_ = centers ]
             ELSE model' = built.model
    /\ cpc' = "built"
    /\ UNCHANGED <<texts, cluster_terms, matcherVars, pipelineVars, ruleVars, pageVars,
                   spatialVars, loaderVars>>

\* cluster_terms = describe_clusters(model, vectorizer)
DescribeClusters ==
    /\ cpc = "built"
    /\ \E ties \in { "stable", "reversed" } :
          cluster_terms' = describe_clusters(model, vectorizer, ties)
    /\ cpc' = "described"
    /\ UNCHANGED <<texts, cluster_labels, vectorizer, model,
                   matcherVars, pipelineVars, ruleVars, pageVars, spatialVars, loaderVars>>

NextCluster == BuildClusterModel \/ DescribeClusters

SpecCluster == InitCluster /\ [][NextCluster]_vars

(***************************************************************************)
(* The two runs over the record files.                                     *)
(***************************************************************************)

MaxFeatures == 2

\* Texts of descriptions.
EmptyText == <<>>
BlankText == << "   " >>
PartyText == << "Som", "alto", "festas" >>
NightText == << "sirene", "noites", "noite", "22h", "Sábado" >>
MixedText == << "vamos", ",", "http://ruido.com/x", "http://\\S", "de",
                "Reclamações", "10", "barulho" >>

\* Rule fields and a cluster left by an earlier labelling of other tokens.
Labelled(props) ==
    [ props EXCEPT
        !.keys = @ \cup RuleKeys \cup { CLUSTER_PROPERTY },
        !.tipo = "veiculo", !.contexto = "igreja_templo", !.contexto_score = 3,
        !.contexto_termos = << "culto", "igreja", "missa" >>,
        !.modalidade = "veiculo", !.modalidade_score = 1,
        !.modalidade_termos = << "moto" >>,
        !.horario = << "tarde" >>, !.cluster = "cluster_5" ]

\* The features a record file may hold: records not tokenized yet (with a
\* null, empty, blank and worded description), records with a token list and
\* no description, a record with a non-list token property, and records
\* that carry labels.
FeatureUniverse ==
    { Props({DESCRICAO}, Null, TokNull),
      Props({DESCRICAO}, Text(EmptyText), TokNull),
      Props({DESCRICAO}, Text(BlankText), TokNull),
      Props({DESCRICAO}, Text(MixedText), TokNull),
      Labelled(Props({DESCRICAO, TOKEN_PROPERTY}, Text(PartyText),
                     TokList(<< "som", "alto", "festa" >>))),
      Props({TOKEN_PROPERTY}, Null, TokList(<< "comercio", "", "SIRENE" >>)),
      Props({TOKEN_PROPERTY}, Null, TokList(<< "sirene" >>)),
      Props({TOKEN_PROPERTY}, Null, TokList(<< "comercio", "22h", "sábado" >>)),
      Labelled(Props({DESCRICAO, TOKEN_PROPERTY}, Text(NightText), TokOther)) }

InitPipeline ==
    /\ MatcherIdle
    /\ geojson \in { File(fs) : fs \in SeqsUpTo(FeatureUniverse, MaxFeatures) }
    /\ output = NoFile
    /\ source = NoFile
    /\ tokenized = FALSE
    /\ ResourcesInstalled
    /\ ClusterIdle
    /\ SpatialIdle
    /\ LoaderIdle
    /\ RuleIdle
    /\ PageIdle

\* _ensure_stopwords(): stopwords.words("portuguese"); on LookupError
\* nltk.download("stopwords") and stopwords.words("portuguese") again.  The
\* download installs the corpus when it can be fetched and returns False
\* when it cannot; the second call then raises LookupError.
StopwordsLookup(nltk) ==
    CASE nltk = "installed" -> [raised |-> FALSE, loads |-> 1, nltk_data |-> "installed"]
      [] nltk = "downloadable" -> [raised |-> FALSE, loads |-> 2, nltk_data |-> "installed"]
      [] OTHER -> [raised |-> TRUE, loads |-> 2, nltk_data |-> "missing"]

\* The outcome of a run of process_geojson().
TokenizerOutcome(err, resources, loads, nltk, file) ==
    [ error |-> err, loaded |-> resources, loads |-> loads, nltk_data |-> nltk,
      file |-> file, done |-> (err = "none") ]

\* Mutant of process_geojson: the resources are loaded before the file is
\* looked for.
process_geojson_loadfirst(file, nltk, spacy) ==
    LET lookup == StopwordsLookup(nltk)
    IN  IF lookup.raised
        THEN TokenizerOutcome("LookupError in _ensure_stopwords", {}, lookup.loads,
                              lookup.nltk_data, file)
        ELSE IF ~spacy
        THEN TokenizerOutcome("OSError in spacy.load", { "stopwords" }, lookup.loads,
                              lookup.nltk_data, file)
        ELSE IF ~file.exists
        THEN TokenizerOutcome("FileNotFoundError in process_geojson",
                              { "stopwords", "pt_core_news_lg" }, lookup.loads,
                              lookup.nltk_data, file)
        ELSE TokenizerOutcome("none", { "stopwords", "pt_core_news_lg" }, lookup.loads,
                              lookup.nltk_data,
                              File([ i \in DOMAIN file.features |->
                                       TokenizeFeature(file.features[i]) ]))

\* process_geojson(): raises when GEOJSON_PATH does not exist; loads the
\* stopwords and then the spaCy model (spacy.load raises OSError when the
\* model is not installed); reads GEOJSON_PATH, sets the token property of
\* every feature and writes GEOJSON_PATH back.
process_geojson(file, nltk, spacy) ==
    IF ~file.exists
    THEN TokenizerOutcome("FileNotFoundError in process_geojson", {}, 0, nltk, file)
    ELSE LET lookup == StopwordsLookup(nltk)
         IN  IF lookup.raised
             THEN TokenizerOutcome("LookupError in _ensure_stopwords", {}, lookup.loads,
                                   lookup.nltk_data, file)
             ELSE IF ~spacy
             THEN TokenizerOutcome("OSError in spacy.load", { "stopwords" }, lookup.loads,
                                   lookup.nltk_data, file)
             ELSE TokenizerOutcome("none", { "stopwords", "pt_core_news_lg" },
                                   lookup.loads, lookup.nltk_data,
                                   File([ i \in DOMAIN file.features |->
                                            TokenizeFeature(file.features[i]) ]))

\* A run of NLP_Tokenization.py.
ProcessGeojson ==
    /\ LET run == process_geojson(geojson, nltk_data, spacy_model)
       IN  /\ error' = run.error
           /\ loaded' = run.loaded
           /\ stopword_loads' = run.loads
           /\ nltk_data' = run.nltk_data
           /\ geojson' = run.file
           /\ tokenized' = (tokenized \/ run.done)
    /\ UNCHANGED <<output, source, spacy_model,
                   matcherVars, ruleVars, pageVars, clusterVars, spatialVars, loaderVars>>

\* A run of NLP_Classification_modalidade.py.  main(): load_geojson raises
\* when GEOJSON_PATH does not exist; otherwise main labels every feature,
\* clusters the documents and writes OUTPUT_GEOJSON_PATH.
Main ==
    /\ IF ~geojson.exists
       THEN /\ error' = "FileNotFoundError in load_geojson"
            /\ UNCHANGED <<output, source>>
       ELSE /\ error' = "none"
            /\ LET features == [ i \in DOMAIN geojson.features |->
                                   ClassifyFeature(geojson.features[i]) ]
                   docs == [ i \in DOMAIN geojson.features |-> TokensOf(geojson.features[i]) ]
               IN  \E built \in build_cluster_model(docs) :
                      output' = File([ i \in DOMAIN features |->
                                         [ features[i] EXCEPT
                                             !.keys = @ \cup { CLUSTER_PROPERTY },
                                             !.cluster = ClusterName(built.labels[i]) ] ])
            /\ source' = geojson
    /\ UNCHANGED <<geojson, tokenized, nltk_data, spacy_model, stopword_loads, loaded,
                   matcherVars, ruleVars, pageVars, clusterVars, spatialVars, loaderVars>>

NextPipeline == ProcessGeojson \/ Main

SpecPipeline == InitPipeline /\ [][NextPipeline]_vars

\* The runs of the two programs on a machine where the record file and the
\* language resources may be absent.
StartupFeatures ==
    { Props({DESCRICAO}, Text(MixedText), TokNull),
      Props({DESCRICAO}, Text(NightText), TokNull),
      Props({DESCRICAO}, Null, TokNull),
      Props({TOKEN_PROPERTY}, Null, TokList(<< "sirene" >>)) }

InitStartup ==
    /\ MatcherIdle
    /\ geojson \in { NoFile } \cup { File(fs) : fs \in SeqsUpTo(StartupFeatures, MaxFeatures) }
    /\ output = NoFile
    /\ source = NoFile
    /\ tokenized = FALSE
    /\ nltk_data \in { "installed", "downloadable", "missing" }
    /\ spacy_model \in BOOLEAN
    /\ stopword_loads = 0
    /\ loaded = {}
    /\ error = "none"
    /\ ClusterIdle
    /\ SpatialIdle
    /\ LoaderIdle
    /\ RuleIdle
    /\ PageIdle

SpecStartup == InitStartup /\ [][NextPipeline]_vars

(***************************************************************************)
(* Properties of the Rule Classifier run and of the Tokenizer run.         *)
(***************************************************************************)

\* The token list stored in a record, [] when there is none.
StoredTokens(props) ==
    IF TOKEN_PROPERTY \in props.keys /\ props.descricao_tokens.kind = "list"
    THEN props.descricao_tokens.items
    ELSE <<>>

\* Some modality category has a keyword among the stored tokens.
ModalityMatched(props) ==
    \E c \in DOMAIN AUDIO_KEYWORDS : Hits(StoredTokens(props), AUDIO_KEYWORDS, c) # {}

\* The fields that the rule loop derives.
RuleFields(props) ==
    << RuleKeys \subseteq props.keys, props.tipo, props.contexto, props.contexto_score,
       props.contexto_termos, props.modalidade, props.modalidade_score,
       props.modalidade_termos, props.horario >>

ModalityResult(props) ==
    << props.modalidade, props.modalidade_score, props.modalidade_termos >>

\* The record with nothing but its token field.
TokensOnly(props) ==
    Props(props.keys \cap { TOKEN_PROPERTY }, Null, props.descricao_tokens)

\* The description is missing, null, empty or white space only.
EmptyDescription(props) ==
    \/ DESCRICAO \notin props.keys
    \/ props.descricao.null
    \/ \A i \in DOMAIN props.descricao.text : props.descricao.text[i] \in { " ", "   " }

C7_ClassifierIsIdempotent ==
    /\ [](output.exists =>
            \A i \in DOMAIN output.features :
                /\ RuleFields(output.features[i])
                      = RuleFields(ClassifyFeature(TokensOnly(source.features[i])))
                /\ RuleFields(ClassifyFeature(output.features[i]))
                      = RuleFields(output.features[i]))
    /\ [][ (output.exists /\ output'.exists /\ source' = source) =>
              \A i \in DOMAIN output.features :
                  RuleFields(output'.features[i]) = RuleFields(output.features[i])
         ]_vars

\* A record that carried the labels of an earlier run was labelled again
\* from its tokens.
C7_Witness ==
    /\ output.exists
    /\ source = geojson
    /\ \E i \in DOMAIN source.features :
          /\ RuleKeys \subseteq source.features[i].keys
          /\ source.features[i].tipo = "veiculo"
          /\ StoredTokens(source.features[i]) = << "som", "alto", "festa" >>
          /\ output.features[i].tipo = "musica"
          /\ output.features[i].contexto = "bar_evento"

\* C8: a record with an empty, null or whitespace-only description gets an
\* empty token sequence from the Tokenizer, and the Rule Classifier then
\* persists context label "", context score 0, modality label "", modality
\* score 0, empty term lists, source-type label "indefinido" and an empty
\* time-window list.
C8_EmptyDescriptionGivesNoLabels ==
    /\ tokenized =>
          \A i \in DOMAIN geojson.features :
              EmptyDescription(geojson.features[i]) =>
                  /\ TOKEN_PROPERTY \in geojson.features[i].keys
                  /\ geojson.features[i].descricao_tokens = TokList(<<>>)
    /\ (tokenized /\ output.exists /\ source = geojson) =>
          \A i \in DOMAIN output.features :
              EmptyDescription(source.features[i]) =>
                  RuleFields(output.features[i])
                      = << TRUE, "indefinido", "", 0, <<>>, "", 0, <<>>, <<>> >>

\* A whitespace-only description and a missing description, the latter on a
\* record that had tokens before, went through both runs.
C8_Witness ==
    /\ tokenized
    /\ output.exists
    /\ source = geojson
    /\ \E i \in DOMAIN source.features : \E j \in DOMAIN source.features :
          /\ source.features[i].descricao = Text(BlankText)
          /\ DESCRICAO \notin source.features[j].keys
          /\ output.features[i].tipo = "indefinido"
          /\ output.features[j].tipo = "indefinido"

(***************************************************************************)
(* User-Defined Rule Engine (pages/4_NLP_Filtros_&_Histogramas.py).        *)
(* A row holds the columns of the DataFrame that the engine reads.  A rule *)
(* is a dict: `keys` holds its keys; the lists of a rule come from         *)
(* multiselect widgets and are read only through `in` and set(), so they   *)
(* are kept as sets.                                                       *)
(***************************************************************************)

Row(contexto, audio, horario, toks) ==
    [ fonte_contexto |-> contexto, fonte_audio |-> audio, fonte_horario |-> horario,
      descricao_tokens |-> toks ]

\* new_rule of the form "custom_rule_form"
NewRule(name, contexts, audios, toks, times) ==
    [ keys |-> { "name", "contexts", "audios", "tokens", "times" }, name |-> name,
      contexts |-> contexts, audios |-> audios, tokens |-> toks, times |-> times ]

\* set(xs) of a list
set(xs) == { xs[i] : i \in DOMAIN xs }

\* rule.get(key) or [] for the list keys of a rule
RuleList(r, key) ==
    IF key \notin r.keys THEN {}
    ELSE CASE key = "contexts" -> r.contexts
           [] key = "audios" -> r.audios
           [] key = "tokens" -> r.tokens
           [] key = "times" -> r.times

\* Mutant of _match_rule: one required token in the record is enough.
_match_rule_anytoken(rw, r) ==
    IF r.keys = {} THEN FALSE
    ELSE LET context == strip(rw.fonte_contexto)
             audio == strip(rw.fonte_audio)
             horarios == rw.fonte_horario
             token_set == set(rw.descricao_tokens)
         IN  IF RuleList(r, "contexts") # {} /\ context \notin RuleList(r, "contexts")
             THEN FALSE
             ELSE IF RuleList(r, "audios") # {} /\ audio \notin RuleList(r, "audios")
             THEN FALSE
             ELSE IF RuleList(r, "tokens") # {} /\ RuleList(r, "tokens") \cap token_set = {}
             THEN FALSE
             ELSE IF RuleList(r, "times") # {}
                     /\ (horarios = <<>> \/ RuleList(r, "times") \cap set(horarios) = {})
             THEN FALSE
             ELSE TRUE

\* Mutant of _match_rule: a rule with no constraint matches nothing.
_match_rule_nowildcard(rw, r) ==
    IF r.keys = {} THEN FALSE
    ELSE IF RuleList(r, "contexts") = {} /\ RuleList(r, "audios") = {}
            /\ RuleList(r, "tokens") = {} /\ RuleList(r, "times") = {}
    THEN FALSE
    ELSE LET context == strip(rw.fonte_contexto)
             audio == strip(rw.fonte_audio)
             horarios == rw.fonte_horario
             token_set == set(rw.descricao_tokens)
         IN  /\ (RuleList(r, "contexts") # {} => context \in RuleList(r, "contexts"))
             /\ (RuleList(r, "audios") # {} => audio \in RuleList(r, "audios"))
             /\ (RuleList(r, "tokens") # {} => RuleList(r, "tokens") \subseteq token_set)
             /\ (RuleList(r, "times") # {} =>
                    horarios # <<>> /\ RuleList(r, "times") \cap set(horarios) # {})

_match_rule(rw, r) ==
    IF r.keys = {} THEN FALSE
    ELSE LET context == strip(rw.fonte_contexto)
             audio == strip(rw.fonte_audio)
             horarios == rw.fonte_horario
             token_set == set(rw.descricao_tokens)
         IN  IF RuleList(r, "contexts") # {} /\ context \notin RuleList(r, "contexts")
             THEN FALSE
             ELSE IF RuleList(r, "audios") # {} /\ audio \notin RuleList(r, "audios")
             THEN FALSE
             ELSE IF RuleList(r, "tokens") # {} /\ ~(RuleList(r, "tokens") \subseteq token_set)
             THEN FALSE
             ELSE IF RuleList(r, "times") # {}
                     /\ (horarios = <<>> \/ RuleList(r, "times") \cap set(horarios) = {})
             THEN FALSE
             ELSE TRUE

\* rule.get("name")
RuleName(r) == IF "name" \in r.keys THEN r.name ELSE ""

\* Mutant of AggregateLoop: the loop stops at the first rule that matches.
RECURSIVE AggregateLoop_break(_, _, _)
AggregateLoop_break(rw, rules, k) ==
    IF k > Len(rules) THEN <<>>
    ELSE IF RuleName(rules[k]) # "" /\ _match_rule(rw, rules[k])
         THEN << RuleName(rules[k]) >>
         ELSE AggregateLoop_break(rw, rules, k + 1)

\* apply_custom_rules._aggregate: the loop over the rules from rule k on.
RECURSIVE AggregateLoop(_, _, _)
AggregateLoop(rw, rules, k) ==
    IF k > Len(rules) THEN <<>>
    ELSE (IF RuleName(rules[k]) # "" /\ _match_rule(rw, rules[k])
          THEN << RuleName(rules[k]) >>
          ELSE <<>>) \o AggregateLoop(rw, rules, k + 1)

_aggregate(rw, rules) == AggregateLoop(rw, rules, 1)

\* apply_custom_rules(data, rules): the column "custom_rules" of the result.
apply_custom_rules(data, rules) ==
    IF data = <<>> THEN <<>>
    ELSE IF rules = <<>> THEN [ i \in DOMAIN data |-> <<>> ]
    ELSE [ i \in DOMAIN data |-> _aggregate(data[i], rules) ]

(***************************************************************************)
(* _match_rule called on a row and a rule.                                 *)
(***************************************************************************)

\* Labels as the classifier writes them, and labels with white space
\* around them as a record file may hold them.
RowContexts == { "", "bar_evento", " bar_evento ", "obra_construcao" }
RowAudios == { "", "musica", "musica " }
RowHorarios == { <<>>, << "madrugada" >>, << "tarde" >>, << "noite", "fim_de_semana" >> }
RowTokens == { <<>>, << "som" >>, << "alto", "som", "festa" >>, << "alto", "alto" >> }

RowUniverse ==
    { Row(c, a, h, t) : c \in RowContexts, a \in RowAudios, h \in RowHorarios, t \in RowTokens }

RuleUniverse ==
    { NewRule(n, c, a, t, h) :
        n \in { "", "r1" },
        c \in { {}, { "bar_evento" }, { " bar_evento " }, { "bar_evento", "obra_construcao" } },
        a \in { {}, { "musica" } },
        t \in { {}, { "som" }, { "som", "alto" } },
        h \in { {}, { "tarde" }, { "noite", "madrugada" } } }

InitRule ==
    /\ MatcherIdle
    /\ PipelineIdle
    /\ ClusterIdle
    /\ SpatialIdle
    /\ LoaderIdle
    /\ PageIdle
    /\ row \in RowUniverse
    /\ rule \in RuleUniverse
    /\ matched = FALSE
    /\ rpc = "input"

MatchRule ==
    /\ rpc = "input"
    /\ matched' = _match_rule(row, rule)
    /\ rpc' = "done"
    /\ UNCHANGED <<row, rule, matcherVars, pipelineVars, pageVars, clusterVars, spatialVars, loaderVars>>

NextRule == MatchRule

SpecRule == InitRule /\ [][NextRule]_vars

(***************************************************************************)
(* The page: the session's rule list and the rule column of each run.      *)
(***************************************************************************)

MaxRules == 2

FrameA ==
    << Row("bar_evento", "musica", << "noite" >>, << "som", "alto", "festa" >>),
       Row("", "", <<>>, <<>>),
       Row("obra_construcao", "musica", << "madrugada" >>, << "som" >>) >>

FrameB ==
    << Row(" bar_evento ", "", << "tarde" >>, << "alto", "som" >>),
       Row("bar_evento", "musica ", << "noite", "madrugada" >>, <<>>) >>

Frames == { FrameA, FrameB }

\* The options of the form's widgets, taken from the columns of df.
context_options == { df[i].fonte_contexto : i \in DOMAIN df } \ { "" }
audio_options == { df[i].fonte_audio : i \in DOMAIN df } \ { "" }
time_options == UNION { set(df[i].fonte_horario) : i \in DOMAIN df } \ { "" }
token_choices == UNION { set(df[i].descricao_tokens) : i \in DOMAIN df }

\* The selections of the form that the model submits.
FormNames == { "", "r1", "r2" }
FormContexts == { {}, { "bar_evento" } }
FormAudios == { {}, { "musica" } }
FormTokens == { {}, { "som", "alto" } }
FormTimes == { {}, { "noite", "madrugada" } }

\* _ensure_session_state() and the first run of the page.
InitPage ==
    /\ MatcherIdle
    /\ PipelineIdle
    /\ ClusterIdle
    /\ SpatialIdle
    /\ LoaderIdle
    /\ RuleIdle
    /\ df \in Frames
    /\ custom_rules = <<>>
    /\ custom_rules_col = apply_custom_rules(df, <<>>)
    /\ event = [kind |-> "none", name |-> "", idx |-> 0]

\* Mutant of AddRule: a rule with an empty name is appended as well.
AddRule_unnamed ==
    /\ df # <<>>
    /\ Len(custom_rules) < MaxRules
    /\ \E rule_name \in FormNames, form_contexts \in FormContexts, form_audios \in FormAudios,
          form_tokens \in FormTokens, form_times \in FormTimes :
          /\ form_contexts \subseteq context_options
          /\ form_audios \subseteq audio_options
          /\ form_tokens \subseteq token_choices
          /\ form_times \subseteq time_options
          /\ event' = [kind |-> "add", name |-> rule_name, idx |-> 0]
          /\ custom_rules' = Append(custom_rules,
                                    NewRule(rule_name, form_contexts, form_audios,
                                            form_tokens, form_times))
          /\ custom_rules_col' = apply_custom_rules(df, custom_rules')
    /\ UNCHANGED <<df, matcherVars, pipelineVars, ruleVars, clusterVars, spatialVars, loaderVars>>

\* Submit of "custom_rule_form": a warning when the name is empty, else the
\* rule is appended and the page runs again.
AddRule ==
    /\ df # <<>>
    /\ Len(custom_rules) < MaxRules
    /\ \E rule_name \in FormNames, form_contexts \in FormContexts, form_audios \in FormAudios,
          form_tokens \in FormTokens, form_times \in FormTimes :
          /\ form_contexts \subseteq context_options
          /\ form_audios \subseteq audio_options
          /\ form_tokens \subseteq token_choices
          /\ form_times \subseteq time_options
          /\ event' = [kind |-> "add", name |-> rule_name, idx |-> 0]
          /\ IF rule_name = ""
             THEN UNCHANGED <<custom_rules, custom_rules_col>>
             ELSE /\ custom_rules' = Append(custom_rules,
                                            NewRule(rule_name, form_contexts, form_audios,
                                                    form_tokens, form_times))
                  /\ custom_rules_col' = apply_custom_rules(df, custom_rules')
    /\ UNCHANGED <<df, matcherVars, pipelineVars, ruleVars, clusterVars, spatialVars, loaderVars>>

\* Button "Remover" of rule idx: the rule is popped and the page runs again.
RemoveRule ==
    /\ df # <<>>
    /\ \E idx \in DOMAIN custom_rules :
          /\ event' = [kind |-> "remove", name |-> "", idx |-> idx]
          /\ custom_rules' = [ k \in 1 .. (Len(custom_rules) - 1) |->
                                 IF k < idx THEN custom_rules[k] ELSE custom_rules[k + 1] ]
          /\ custom_rules_col' = apply_custom_rules(df, custom_rules')
    /\ UNCHANGED <<df, matcherVars, pipelineVars, ruleVars, clusterVars, spatialVars, loaderVars>>

NextPage == AddRule \/ RemoveRule

SpecPage == InitPage /\ [][NextPage]_vars

(***************************************************************************)
(* Properties of the User-Defined Rule Engine.                             *)
(***************************************************************************)

\* The four constraints of a rule, on the record's labels as stored.
SatisfiesAsStored(rw, r) ==
    /\ r.contexts # {} => rw.fonte_contexto \in r.contexts
    /\ r.audios # {} => rw.fonte_audio \in r.audios
    /\ r.tokens # {} => r.tokens \subseteq Range(rw.descricao_tokens)
    /\ r.times # {} => r.times \cap Range(rw.fonte_horario) # {}

\* The same with the record's context and modality label trimmed of
\* surrounding white space.
SatisfiesTrimmed(rw, r) ==
    /\ r.contexts # {} => strip(rw.fonte_contexto) \in r.contexts
    /\ r.audios # {} => strip(rw.fonte_audio) \in r.audios
    /\ r.tokens # {} => r.tokens \subseteq Range(rw.descricao_tokens)
    /\ r.times # {} => r.times \cap Range(rw.fonte_horario) # {}

\* C9 as claimed: _match_rule returns true iff every non-empty constraint set
\* is satisfied, the record's context being a member of the required
\* contexts and its modality a member of the required modalities.
C9_Original_MatchIffConstraintsOnStoredLabels ==
    rpc = "done" => (matched <=> SatisfiesAsStored(row, rule))

\* C9: _match_rule returns true iff every non-empty constraint set of the
\* rule is satisfied: the record's context, trimmed of surrounding white
\* space, is a member of the required contexts, its trimmed modality a member
\* of the required modalities, the required tokens are all among the record's
\* tokens, and the required windows share an element with the record's
\* windows; required tokens {"som","alto"} match only supersets, and required
\* windows {"noite","madrugada"} match a record whose windows are {"madrugada"}.
C9_MatchIffConstraintsOnTrimmedLabels ==
    rpc = "done" =>
        /\ matched <=> SatisfiesTrimmed(row, rule)
        /\ (matched /\ rule.tokens = { "som", "alto" }) =>
              { "som", "alto" } \subseteq Range(row.descricao_tokens)
        /\ (rule.times = { "noite", "madrugada" } /\ row.fonte_horario = << "madrugada" >>
              /\ rule.contexts = {} /\ rule.audios = {} /\ rule.tokens = {}) => matched

\* A rule with all four constraints matched a record through a subset of
\* tokens and one shared window.
C9_Witness ==
    /\ rpc = "done"
    /\ matched
    /\ rule.contexts = { "bar_evento", "obra_construcao" }
    /\ rule.audios = { "musica" }
    /\ rule.tokens = { "som", "alto" }
    /\ rule.times = { "noite", "madrugada" }
    /\ row.fonte_horario = << "madrugada" >>
    /\ row.descricao_tokens = << "alto", "som", "festa" >>

\* C10: a named rule whose four constraint sets are all empty matches every
\* record, records with no tokens, no labels and no windows included.
C10_EmptyRuleMatchesEveryRecord ==
    \A k \in DOMAIN custom_rules :
        ( /\ custom_rules[k].name # ""
          /\ custom_rules[k].contexts = {} /\ custom_rules[k].audios = {}
          /\ custom_rules[k].tokens = {} /\ custom_rules[k].times = {} )
        => /\ Len(custom_rules_col) = Len(df)
           /\ \A i \in DOMAIN df :
                 /\ _match_rule(df[i], custom_rules[k])
                 /\ custom_rules[k].name \in Range(custom_rules_col[i])

\* The session holds a rule with no constraint next to a rule with
\* constraints, and a record with no tokens, labels or windows carries the
\* name of the former only.
C10_Witness ==
    /\ Len(custom_rules) = 2
    /\ custom_rules[1] = NewRule("r1", { "bar_evento" }, {}, { "som", "alto" }, {})
    /\ custom_rules[2] = NewRule("r2", {}, {}, {}, {})
    /\ \E i \in DOMAIN df :
          /\ df[i] = Row("", "", <<>>, <<>>)
          /\ custom_rules_col[i] = << "r2" >>

\* The names of the rules that a record matches, in the order of the rule list.
MatchingNames(rw, rules) ==
    LET idx == SelectSeq([ k \in DOMAIN rules |-> k ], LAMBDA k : _match_rule(rw, rules[k]))
    IN  [ j \in DOMAIN idx |-> rules[idx[j]].name ]

\* C11: for every record and every rule list of the session,
\* apply_custom_rules gives the record the names of all the rules it matches,
\* one entry per matching rule, in rule-definition order; a rule is evaluated
\* whether or not an earlier rule matched.
C11_ColumnListsEveryMatchingRuleInOrder ==
    /\ Len(custom_rules_col) = Len(df)
    /\ \A i \in DOMAIN df : custom_rules_col[i] = MatchingNames(df[i], custom_rules)

\* A record carries the names of two rules in definition order (not in
\* alphabetical order), another record the name of the second rule only.
C11_Witness ==
    /\ Len(custom_rules) = 2
    /\ custom_rules[1].name = "r2"
    /\ custom_rules[2].name = "r1"
    /\ \E i \in DOMAIN df : custom_rules_col[i] = << "r2", "r1" >>
    /\ \E i \in DOMAIN df : custom_rules_col[i] = << "r1" >>
    /\ \E i \in DOMAIN df : custom_rules_col[i] = <<>>

(***************************************************************************)
(* Properties of the Text Cluster Engine.                                  *)
(***************************************************************************)

\* The documents of the corpus that are not empty.
NonEmptyDocs(docs) == { i \in DOMAIN docs : ~DocIsEmpty(docs[i]) }

\* min(6, max(1, number of non-empty documents))
EffectiveK(docs) == Min(6, Max(1, Cardinality(NonEmptyDocs(docs))))

\* C12: the engine uses min(6, max(1, number of non-empty documents)) as the
\* K-Means cluster count; a corpus whose effective count is 1 (two empty
\* documents and a non-empty one, say) has every record in cluster 0, and
\* there is one label per document.
C12_ClusterCountIsBoundedByNonEmptyDocuments ==
    cpc # "input" =>
        /\ Len(cluster_labels) = Len(texts)
        /\ model.fitted => model.n_clusters = EffectiveK(texts)
        /\ (texts # <<>> /\ EffectiveK(texts) = 1) =>
              /\ ~model.fitted
              /\ \A i \in DOMAIN texts : cluster_labels[i] = 0

\* C13: build_cluster_model does not fit the vectorizer when the corpus is
\* empty or every document is empty, and does not fit K-Means when the
\* effective cluster count is 1: an empty corpus gets no labels, an all-empty
\* corpus label 0 for every record, an effective count of 1 label 0 for every
\* record; there is always one label per document.
C13_DegenerateCorporaSkipTheFits ==
    cpc # "input" =>
        /\ Len(cluster_labels) = Len(texts)
        /\ texts = <<>> => (cluster_labels = <<>> /\ ~vectorizer.fitted /\ ~model.fitted)
        /\ (texts # <<>> /\ NonEmptyDocs(texts) = {}) =>
              /\ ~vectorizer.fitted
              /\ ~model.fitted
              /\ \A i \in DOMAIN texts : cluster_labels[i] = 0
        /\ (NonEmptyDocs(texts) # {} /\ EffectiveK(texts) = 1) =>
              /\ ~model.fitted
              /\ \A i \in DOMAIN texts : cluster_labels[i] = 0

\* The cluster ids that the labels give to a record.
AssignedClusters == { cluster_labels[i] : i \in DOMAIN cluster_labels }

\* The number of a term in the vocabulary of the fitted vectorizer.
TermIndex(term) == CHOOSE t \in DOMAIN vectorizer.vocabulary : vectorizer.vocabulary[t] = term

\* The listed terms are `count` distinct terms of the vocabulary, listed by
\* non-increasing weight in the centre, and no term left out weighs more than
\* a listed one.
IsTopTerms(listed, centroid, count) ==
    /\ Len(listed) = count
    /\ \A k \in DOMAIN listed : listed[k] \in Range(vectorizer.vocabulary)
    /\ LET ids == [ k \in DOMAIN listed |-> TermIndex(listed[k]) ]
       IN  /\ \A k \in DOMAIN ids : \A l \in DOMAIN ids : ids[k] = ids[l] => k = l
           /\ \A k \in DOMAIN ids : \A l \in DOMAIN ids :
                 k < l => centroid[ids[k]] >= centroid[ids[l]]
           /\ \A t \in DOMAIN centroid \ Range(ids) : \A k \in DOMAIN ids :
                 centroid[t] <= centroid[ids[k]]

\* C14 as claimed: for every cluster id given to a record of a corpus with a
\* non-empty vocabulary, the engine reports the cluster's top
\* min(10, vocabulary size) terms by non-increasing centroid weight.
C14_Original_EveryAssignedClusterHasItsTopTerms ==
    (cpc = "described" /\ vectorizer.fitted /\ vectorizer.vocabulary # <<>>) =>
        \A c \in AssignedClusters :
            /\ c + 1 \in DOMAIN cluster_terms
            /\ Len(cluster_terms[c + 1])
                  = Min(TOP_TERMS_PER_CLUSTER, Len(vectorizer.vocabulary))
            /\ model.fitted =>
                  IsTopTerms(cluster_terms[c + 1], model.cluster_centers_[c + 1],
                             Min(TOP_TERMS_PER_CLUSTER, Len(vectorizer.vocabulary)))

\* C14: when K-Means was fitted, the engine reports for every cluster id of
\* the model, those given to a record included, the cluster's top
\* min(10, vocabulary size) terms by non-increasing centroid weight; when
\* K-Means was not fitted (an empty or all-empty corpus, or a single
\* document) it reports cluster 0 alone with an empty list of terms.
C14_FittedClustersHaveTheirTopTerms ==
    cpc = "described" =>
        IF model.fitted
        THEN /\ vectorizer.fitted /\ vectorizer.vocabulary # <<>>
             /\ DOMAIN cluster_terms = 1 .. model.n_clusters
             /\ \A c \in AssignedClusters : c + 1 \in DOMAIN cluster_terms
             /\ \A idx \in DOMAIN cluster_terms :
                   IsTopTerms(cluster_terms[idx], model.cluster_centers_[idx],
                              Min(TOP_TERMS_PER_CLUSTER, Len(vectorizer.vocabulary)))
        ELSE cluster_terms = << <<>> >>

\* A fitted model over thirteen terms: a cluster with the long document has
\* ten terms listed, of different weights, and three left out.
C14_Witness ==
    /\ cpc = "described"
    /\ model.fitted
    /\ Len(vectorizer.vocabulary) = 13
    /\ \E c \in AssignedClusters :
          /\ Len(cluster_terms[c + 1]) = 10
          /\ model.cluster_centers_[c + 1][TermIndex(cluster_terms[c + 1][1])]
                > model.cluster_centers_[c + 1][TermIndex(cluster_terms[c + 1][10])]
          /\ model.cluster_centers_[c + 1][TermIndex(cluster_terms[c + 1][10])] > 0

(***************************************************************************)
(* The Spatial Cluster Engine: one run of a clustering page.  A point is   *)
(* kept as a row; its coordinates reach the model only through the labels  *)
(* that OPTICS and K-Means give it.                                        *)
(***************************************************************************)

\* compute_wcss(df_clean, max_clusters=10)
max_clusters == 10

\* A sequence of `count` copies of a value.
Repeat(value, count) == [ i \in 1 .. count |-> value ]

\* sklearn raises ValueError from OPTICS.fit when there is no sample or
\* min_samples is greater than the number of samples.
OpticsRaises(n_samples, ms) == n_samples = 0 \/ ms > n_samples

\* sklearn raises ValueError from KMeans.fit when n_samples < n_clusters.
KMeansRaises(n_samples, n_clusters) == n_samples < n_clusters

\* The sizes of the density clusters OPTICS may find among `total` points:
\* every cluster has at least min_cluster_size = min_samples members.
RECURSIVE ClusterSizes(_, _)
ClusterSizes(total, ms) ==
    { <<>> } \cup
    UNION { { << size >> \o rest : rest \in ClusterSizes(total - size, ms) } :
            size \in ms .. total }

\* The labels of the clusters of the given sizes, cluster ids from `first` on.
RECURSIVE ClusterRows(_, _)
ClusterRows(sizes, first) ==
    IF sizes = <<>> THEN <<>>
    ELSE Repeat(first, Head(sizes)) \o ClusterRows(Tail(sizes), first + 1)

RECURSIVE Sum(_)
Sum(sizes) == IF sizes = <<>> THEN 0 ELSE Head(sizes) + Sum(Tail(sizes))

\* The label arrays OPTICS(metric="haversine", min_samples).fit_predict may
\* return for n_samples points.  The rows are listed noise first, then
\* cluster by cluster: no step of the page depends on the order of the rows.
OpticsLabels(n_samples, ms) ==
    { Repeat(-1, n_samples - Sum(sizes)) \o ClusterRows(sizes, 0) :
        sizes \in ClusterSizes(n_samples, ms) }

\* The non-decreasing sequences of `len` ids below n_clusters.
RECURSIVE SortedIds(_, _, _)
SortedIds(len, low, n_clusters) ==
    IF len = 0 THEN { <<>> }
    ELSE UNION { { << id >> \o rest : rest \in SortedIds(len - 1, id, n_clusters) } :
                 id \in low .. (n_clusters - 1) }

\* The density cluster ids of df_clean, in order.
OpticsIds(clean) == { clean[i] : i \in DOMAIN clean }

\* The rows of df_clean that belong to density cluster c.
Members(clean, c) == { i \in DOMAIN clean : clean[i] = c }

\* The label arrays KMeans(n_clusters).fit_predict may return for the rows of
\* df_clean: any id below n_clusters for any row.  The rows of one density
\* cluster are listed by K-Means id.
RECURSIVE KMeansPartition(_, _, _)
KMeansPartition(clean, c, n_clusters) ==
    IF Members(clean, c) = {} THEN { <<>> }
    ELSE { part \o rest :
             part \in SortedIds(Cardinality(Members(clean, c)), 0, n_clusters),
             rest \in KMeansPartition(clean, c + 1, n_clusters) }

\* df_clean.groupby("optics_cluster").agg(..., quantidade=("latitude", "size"))
MediansByOptics(clean) ==
    LET ids == OpticsIds(clean)
    IN  [ k \in 1 .. Cardinality(ids) |->
            [cluster |-> k - 1, quantidade |-> Cardinality(Members(clean, k - 1))] ]

\* s.value_counts() for the K-Means ids of density cluster c
ValueCount(clean, labels, c, id) ==
    Cardinality({ i \in Members(clean, c) : labels[i] = id })

\* Mutant of IdxMax: the least frequent id of the cluster.
IdxMax_min(clean, labels, c) ==
    { id \in { labels[i] : i \in Members(clean, c) } :
        \A other \in { labels[i] : i \in Members(clean, c) } :
            ValueCount(clean, labels, c, id) <= ValueCount(clean, labels, c, other) }

\* s.value_counts().idxmax(): an id of the largest count; which of several
\* ids of the same count comes first is the sort's choice.
IdxMax(clean, labels, c) ==
    { id \in { labels[i] : i \in Members(clean, c) } :
        \A other \in { labels[i] : i \in Members(clean, c) } :
            ValueCount(clean, labels, c, other) <= ValueCount(clean, labels, c, id) }

\* medians_by_optics.sort_values("quantidade", ascending=False): rows of
\* equal size keep their order.
RECURSIVE SortByQuantidade(_)
SortByQuantidade(rows) ==
    IF rows = <<>> THEN <<>>
    ELSE LET k == CHOOSE k \in DOMAIN rows :
                     /\ \A l \in DOMAIN rows : rows[l].quantidade <= rows[k].quantidade
                     /\ \A l \in 1 .. (k - 1) : rows[l].quantidade < rows[k].quantidade
         IN  << rows[k] >> \o
             SortByQuantidade([ l \in 1 .. (Len(rows) - 1) |->
                                  IF l < k THEN rows[l] ELSE rows[l + 1] ])

\* centroids_display["cluster"].map(optics_to_kmeans).fillna(-1).astype(int)
CentroidsDisplay(medians, crossref) ==
    LET rows == SortByQuantidade(medians)
    IN  [ k \in DOMAIN rows |->
            [cluster |-> rows[k].cluster, quantidade |-> rows[k].quantidade,
             cluster_kmeans |-> IF rows[k].cluster + 1 \in DOMAIN crossref
                                THEN crossref[rows[k].cluster + 1] ELSE -1] ]

\* compute_wcss(points, max_clusters): the loop from k on; one inertia per
\* fit (kept as the k of the fit), and no list when a fit raises.
RECURSIVE WcssLoop(_, _, _, _)
WcssLoop(n_samples, k, limit, acc) ==
    IF k > limit THEN [raised |-> FALSE, wcss |-> acc]
    ELSE IF KMeansRaises(n_samples, k) THEN [raised |-> TRUE, wcss |-> <<>>]
    ELSE WcssLoop(n_samples, k + 1, limit, Append(acc, k))

compute_wcss(n_samples, limit) == WcssLoop(n_samples, 1, limit, <<>>)

\* The runs of the model: the number of valid points of the data file and
\* the two sliders (min_samples 5..100, default 15; cluster_count 2..10).
\* The largest number of partitions is asked for only of files with fewer
\* points than that: K-Means may return any of 10^n label arrays for n points.
MaxPoints == 11

MinSamplesChoices == { 5, 6, 15, 100 }
ClusterCountChoices == { 2, 3, 10 }

InitSpatial ==
    /\ MatcherIdle
    /\ PipelineIdle
    /\ RuleIdle
    /\ PageIdle
    /\ ClusterIdle
    /\ LoaderIdle
    /\ page \in { "3", "9" }
    /\ df_raw \in 0 .. MaxPoints
    /\ min_samples \in MinSamplesChoices
    /\ cluster_count \in ClusterCountChoices
    /\ cluster_count = max_clusters => df_raw < max_clusters
    /\ optics_labels = <<>>
    /\ df_clean = <<>>
    /\ medians_by_optics = <<>>
    /\ kmeans_labels = <<>>
    /\ optics_to_kmeans = <<>>
    /\ centroids_display = <<>>
    /\ wcss = <<>>
    /\ warning = "none"
    /\ raised = "none"
    /\ spc = "load"

\* df_raw = load_data(); page 3 stops on an empty frame, page 9 goes on.
LoadData ==
    /\ spc = "load"
    /\ IF page = "3" /\ df_raw = 0
       THEN /\ warning' = "Nenhum dado válido foi encontrado no arquivo GeoJSON."
            /\ spc' = "stopped"
       ELSE /\ spc' = "optics"
            /\ UNCHANGED warning
    /\ UNCHANGED <<page, df_raw, min_samples, cluster_count, optics_labels, df_clean,
                   medians_by_optics, kmeans_labels, optics_to_kmeans, centroids_display,
                   wcss, raised, matcherVars, pipelineVars, ruleVars, pageVars, clusterVars, loaderVars>>

\* Mutant of NonNoise: the noise rows are kept.
NonNoise_all(labels) == labels

\* df_optics[df_optics["optics_cluster"] != -1]
NonNoise(labels) == SelectSeq(labels, LAMBDA label : label # -1)

\* Mutant of RunOptics: the page goes on when every point is noise.
RunOptics_noguard ==
    /\ spc = "optics"
    /\ IF OpticsRaises(df_raw, min_samples)
       THEN /\ raised' = "ValueError (OPTICS)"
            /\ spc' = "raised"
            /\ UNCHANGED <<optics_labels, df_clean>>
       ELSE /\ \E labels \in OpticsLabels(df_raw, min_samples) :
                  /\ optics_labels' = labels
                  /\ df_clean' = SelectSeq(labels, LAMBDA label : label # -1)
            /\ spc' = "medians"
            /\ UNCHANGED raised
    /\ UNCHANGED <<page, df_raw, min_samples, cluster_count, medians_by_optics,
                   kmeans_labels, optics_to_kmeans, centroids_display, wcss, warning,
                   matcherVars, pipelineVars, ruleVars, pageVars, clusterVars, loaderVars>>

\* optics_labels = run_optics(df_raw, min_samples); df_clean = the rows that
\* are not noise; the page stops when there is none.
RunOptics ==
    /\ spc = "optics"
    /\ IF OpticsRaises(df_raw, min_samples)
       THEN /\ raised' = "ValueError (OPTICS)"
            /\ spc' = "raised"
            /\ UNCHANGED <<optics_labels, df_clean, warning>>
       ELSE /\ \E labels \in OpticsLabels(df_raw, min_samples) :
                  /\ optics_labels' = labels
                  /\ df_clean' = NonNoise(labels)
            /\ IF df_clean' = <<>>
               THEN /\ warning' = "OPTICS marcou todos os pontos como ruído. Ajuste os parâmetros."
                    /\ spc' = "stopped"
               ELSE /\ spc' = "medians"
                    /\ UNCHANGED warning
            /\ UNCHANGED raised
    /\ UNCHANGED <<page, df_raw, min_samples, cluster_count, medians_by_optics,
                   kmeans_labels, optics_to_kmeans, centroids_display, wcss,
                   matcherVars, pipelineVars, ruleVars, pageVars, clusterVars, loaderVars>>

\* Mutant of Medians: the page goes on whatever the number of rows.
Medians_noguard ==
    /\ spc = "medians"
    /\ medians_by_optics' = MediansByOptics(df_clean)
    /\ spc' = "kmeans"
    /\ UNCHANGED <<page, df_raw, min_samples, cluster_count, optics_labels, df_clean,
                   kmeans_labels, optics_to_kmeans, centroids_display, wcss, warning, raised,
                   matcherVars, pipelineVars, ruleVars, pageVars, clusterVars, loaderVars>>

\* medians_by_optics = ...; the page stops when df_clean has fewer rows than
\* cluster_count.
Medians ==
    /\ spc = "medians"
    /\ medians_by_optics' = MediansByOptics(df_clean)
    /\ IF Len(df_clean) < cluster_count
       THEN /\ warning' = "Há menos pontos limpos do que clusters solicitados."
            /\ spc' = "stopped"
       ELSE /\ spc' = "kmeans"
            /\ UNCHANGED warning
    /\ UNCHANGED <<page, df_raw, min_samples, cluster_count, optics_labels, df_clean,
                   kmeans_labels, optics_to_kmeans, centroids_display, wcss, raised,
                   matcherVars, pipelineVars, ruleVars, pageVars, clusterVars, loaderVars>>

\* kmeans_labels, inertia = run_kmeans(df_clean, cluster_count); on page 3
\* the cross-reference optics_to_kmeans and the centroid table follow.
RunKMeans ==
    /\ spc = "kmeans"
    /\ IF KMeansRaises(Len(df_clean), cluster_count)
       THEN /\ raised' = "ValueError (KMeans)"
            /\ spc' = "raised"
            /\ UNCHANGED <<kmeans_labels, optics_to_kmeans, centroids_display>>
       ELSE /\ \E labels \in KMeansPartition(df_clean, 0, cluster_count) :
                  /\ kmeans_labels' = labels
                  /\ IF page = "3"
                     THEN /\ optics_to_kmeans' \in
                               [ DOMAIN medians_by_optics -> 0 .. (cluster_count - 1) ]
                          /\ \A k \in DOMAIN medians_by_optics :
                                optics_to_kmeans'[k] \in IdxMax(df_clean, labels, k - 1)
                          /\ centroids_display' =
                                CentroidsDisplay(medians_by_optics, optics_to_kmeans')
                     ELSE UNCHANGED <<optics_to_kmeans, centroids_display>>
            /\ spc' = "elbow"
            /\ UNCHANGED raised
    /\ UNCHANGED <<page, df_raw, min_samples, cluster_count, optics_labels, df_clean,
                   medians_by_optics, wcss, warning,
                   matcherVars, pipelineVars, ruleVars, pageVars, clusterVars, loaderVars>>

\* wcss = compute_wcss(df_clean, max_clusters=10)
ComputeWcss ==
    /\ spc = "elbow"
    /\ LET fits == compute_wcss(Len(df_clean), max_clusters)
       IN  IF fits.raised
           THEN /\ raised' = "ValueError (KMeans)"
                /\ spc' = "raised"
                /\ UNCHANGED wcss
           ELSE /\ wcss' = fits.wcss
                /\ spc' = "done"
                /\ UNCHANGED raised
    /\ UNCHANGED <<page, df_raw, min_samples, cluster_count, optics_labels, df_clean,
                   medians_by_optics, kmeans_labels, optics_to_kmeans, centroids_display,
                   warning, matcherVars, pipelineVars, ruleVars, pageVars, clusterVars, loaderVars>>

NextSpatial == LoadData \/ RunOptics \/ Medians \/ RunKMeans \/ ComputeWcss

SpecSpatial == InitSpatial /\ [][NextSpatial]_vars

(***************************************************************************)
(* Properties of the Spatial Cluster Engine.                               *)
(***************************************************************************)

NoiseWarning == "OPTICS marcou todos os pontos como ruído. Ajuste os parâmetros."
FewPointsWarning == "Há menos pontos limpos do que clusters solicitados."

\* Nothing of the partition pass, the cross-reference or the elbow exists.
NoPartitionResults ==
    /\ kmeans_labels = <<>>
    /\ optics_to_kmeans = <<>>
    /\ centroids_display = <<>>
    /\ wcss = <<>>

\* C15: when the density pass labels every point as noise, the page stops
\* with a warning and no usable cluster, before the medians, the K-Means
\* pass, the cross-reference and the elbow diagnostic, and it does not raise.
C15_AllNoiseStopsWithAWarning ==
    (optics_labels # <<>> /\ \A i \in DOMAIN optics_labels : optics_labels[i] = -1) =>
        /\ spc = "stopped"
        /\ warning = NoiseWarning
        /\ raised = "none"
        /\ df_clean = <<>>
        /\ medians_by_optics = <<>>
        /\ NoPartitionResults

\* OPTICS ran on enough points and called all of them noise.
C15_Witness ==
    /\ optics_labels = Repeat(-1, 7)
    /\ min_samples = 6
    /\ spc = "stopped"
    /\ warning = NoiseWarning

\* C16: the K-Means pass is invoked only when the non-noise points are at
\* least cluster_count; when fewer points survive the noise removal the
\* page stops with a warning and there are no partition labels, centroids,
\* inertia or elbow curve.
C16_KMeansRunsOnlyOnEnoughPoints ==
    /\ (kmeans_labels # <<>> \/ spc \in { "kmeans", "elbow", "done" }) =>
          Len(df_clean) >= cluster_count
    /\ raised # "ValueError (KMeans)" \/ kmeans_labels # <<>>
    /\ (df_clean # <<>> /\ Len(df_clean) < cluster_count /\ spc # "medians") =>
          /\ spc = "stopped"
          /\ warning = FewPointsWarning
          /\ raised = "none"
          /\ NoPartitionResults

\* Six points survived and ten partitions were asked for: the page stopped.
C16_Witness ==
    /\ Len(df_clean) = 6
    /\ cluster_count = 10
    /\ spc = "stopped"
    /\ warning = FewPointsWarning
    /\ medians_by_optics # <<>>

\* C17: whenever the page passes the all-noise guard and the fewer-than-k
\* guard, the elbow diagnostic fits K-Means for every k = 1..10 on the
\* non-noise points and records exactly 10 inertia values; no fit fails
\* because k exceeds the number of non-noise points.
C17_ElbowRecordsTenInertias ==
    (kmeans_labels # <<>> /\ spc # "elbow") =>
        /\ spc = "done"
        /\ raised = "none"
        /\ wcss = [ k \in 1 .. max_clusters |-> k ]

\* C18: for a non-empty set of valid points and any min_samples of the
\* slider, the density pass runs with min_samples <= number of points or the
\* page reports that the data are insufficient; the library does not raise
\* on a point set smaller than min_samples.
C18_OpticsNeverRaisesOnFewPoints ==
    (df_raw > 0 /\ spc \notin { "load", "optics" }) =>
        /\ raised # "ValueError (OPTICS)"
        /\ optics_labels # <<>> => min_samples <= df_raw
        /\ (min_samples > df_raw) => (spc = "stopped" /\ warning # "none")

\* The members of density cluster c that K-Means put in partition id.
Votes(c, id) ==
    Cardinality({ i \in DOMAIN df_clean : df_clean[i] = c /\ kmeans_labels[i] = id })

\* C19: the cross-reference gives every density cluster the partition id
\* with the largest number of members in it, an id that a member holds, and
\* every density cluster of the centroid table receives such an id.
C19_CrossReferenceIsTheMajorityVote ==
    (page = "3" /\ kmeans_labels # <<>>) =>
        /\ Len(centroids_display) = Cardinality(OpticsIds(df_clean))
        /\ \A c \in OpticsIds(df_clean) :
              \E k \in DOMAIN centroids_display : centroids_display[k].cluster = c
        /\ \A k \in DOMAIN centroids_display :
              LET shown == centroids_display[k]
              IN  /\ shown.cluster \in OpticsIds(df_clean)
                  /\ shown.cluster_kmeans \in 0 .. (cluster_count - 1)
                  /\ shown.cluster_kmeans = optics_to_kmeans[shown.cluster + 1]
                  /\ Votes(shown.cluster, shown.cluster_kmeans) >= 1
                  /\ \A id \in 0 .. (cluster_count - 1) :
                        Votes(shown.cluster, id) <= Votes(shown.cluster, shown.cluster_kmeans)

\* Two density clusters whose members are split between partitions: the
\* larger share wins in each, and the two winners differ.
C19_Witness ==
    /\ page = "3"
    /\ Len(centroids_display) = 2
    /\ kmeans_labels # <<>>
    /\ Votes(0, 0) = 3 /\ Votes(0, 1) = 2
    /\ Votes(1, 1) = 4 /\ Votes(1, 2) = 2
    /\ optics_to_kmeans = << 0, 1 >>
    /\ centroids_display[1].cluster = 1
    /\ centroids_display[1].cluster_kmeans = 1

(***************************************************************************)
(* URL removal of the Tokenizer.                                          *)
(***************************************************************************)

\* The pieces of the descriptions of the model that are URLs with a protocol
\* prefix.
UrlPieces == { "http://ruido.com/x", "HTTP://Ruido.com/x", "http://\\S" }

\* C20: for any description containing a protocol-prefixed or "www."-prefixed
\* URL, the Tokenizer removes the URL before tokenization and no emitted
\* token is, or is derived from, the URL text.
C20_NoTokenComesFromAUrl ==
    tokenized =>
        \A i \in DOMAIN geojson.features :
            LET props == geojson.features[i]
                text == DescricaoOf(props)
                emitted == props.descricao_tokens.items
            IN  \A j \in DOMAIN text :
                    text[j] \in UrlPieces =>
                        \A t \in DOMAIN emitted : emitted[t] # lower(text[j])

(***************************************************************************)
(* Stopwords of the Tokenizer.                                             *)
(***************************************************************************)

\* The stopword set: the base list, lower-cased, with the domain extension.
StopwordSet == { lower(w) : w \in nltk_portuguese } \cup extras

\* C21: no token emitted by the Tokenizer is a stopword (base list plus
\* domain extension): a piece is dropped when its lower-cased surface form or
\* its final lemma (after the "ir" normalisation) is a stopword, and every
\* emitted token is a non-empty lower-case string.
C21_NoEmittedTokenIsAStopword ==
    tokenized =>
        \A i \in DOMAIN geojson.features :
            LET kept == geojson.features[i].descricao_tokens
                text == DescricaoOf(geojson.features[i])
            IN  /\ kept.kind = "list"
                /\ \A t \in DOMAIN kept.items :
                      /\ kept.items[t] \notin StopwordSet
                      /\ kept.items[t] # ""
                      /\ lower(kept.items[t]) = kept.items[t]
                /\ \A j \in DOMAIN text :
                      LET spacy == nlp(<< lower(URL_REGEX_sub(text)[j]) >>)[1]
                          surface == lower(strip(spacy.text))
                          final == IF lower(strip(spacy.lemma_)) \in IR_FORMS
                                   THEN "ir" ELSE lower(strip(spacy.lemma_))
                      IN  (surface \in StopwordSet \/ final \in StopwordSet) =>
                              \A t \in DOMAIN kept.items :
                                  kept.items[t] \notin { surface, final }

\* A tokenized description with a stopword surface ("de", "barulho"), a
\* stopword lemma ("Reclamações" -> "reclamação") and a form of "ir".
C21_Witness ==
    /\ tokenized
    /\ \E i \in DOMAIN geojson.features :
          /\ geojson.features[i].descricao = Text(MixedText)
          /\ \E t \in DOMAIN geojson.features[i].descricao_tokens.items :
                geojson.features[i].descricao_tokens.items[t] = "ir"

(***************************************************************************)
(* Start of the Tokenizer run and of the Rule Classifier run.              *)
(***************************************************************************)

FileNotFound ==
    { "FileNotFoundError in process_geojson", "FileNotFoundError in load_geojson" }

\* C22: when the input file does not exist, the Tokenizer run and the Rule
\* Classifier run each fail with a file-not-found error before any language
\* resource is loaded, before any record is processed, and without creating
\* or modifying any file.
C22_MissingFileFailsBeforeAnyWork ==
    [][ (~geojson.exists \/ error' \in FileNotFound) =>
            /\ ~geojson.exists
            /\ error' \in FileNotFound
            /\ loaded' = {}
            /\ stopword_loads' = 0
            /\ nltk_data' = nltk_data
            /\ tokenized' = FALSE
            /\ geojson' = NoFile
            /\ output' = NoFile
            /\ source' = NoFile ]_vars

\* Both programs have failed on the missing file, the Tokenizer last, on a
\* machine without the language resources.
C22_Witness ==
    /\ ~geojson.exists
    /\ error = "FileNotFoundError in process_geojson"
    /\ nltk_data = "downloadable"
    /\ ~spacy_model
    /\ ~output.exists

\* The Classifier has failed on the missing file.
C22_WitnessClassifier ==
    /\ ~geojson.exists
    /\ error = "FileNotFoundError in load_geojson"
    /\ ~output.exists

ResourceErrors == { "LookupError in _ensure_stopwords", "OSError in spacy.load" }

\* C23: when the stopword resource or the language model is unavailable at
\* startup, the Tokenizer run ends in a fatal error without retrying the
\* load, and then no record is tokenized and the record file is unmodified.
C23_UnavailableResourceIsFatalWithoutRetry ==
    [][ (geojson.exists /\ <<error, loaded, stopword_loads>>' # <<error, loaded, stopword_loads>>
           /\ stopword_loads' > 0 /\ (nltk_data # "installed" \/ ~spacy_model)) =>
            /\ error' \in ResourceErrors
            /\ stopword_loads' <= 1
            /\ geojson' = geojson
            /\ tokenized' = tokenized ]_vars

(***************************************************************************)
(* Loaders of the feature collection (pages/3_Machine_Learning.py,         *)
(* pages/4_NLP_Filtros_&_Histogramas.py, Home.py).                         *)
(***************************************************************************)

\* The value of a JSON key: absent, null, or present.
Absent == [kind |-> "absent", items |-> <<>>]
JsonNull == [kind |-> "null", items |-> <<>>]
JsonList(items) == [kind |-> "list", items |-> items]

\* A geometry: absent, null, or an object with its "coordinates" value.
NoGeometry == [kind |-> "absent", coordinates |-> Absent]
NullGeometry == [kind |-> "null", coordinates |-> Absent]
Geometry(coordinates) == [kind |-> "object", coordinates |-> coordinates]

\* One iteration of the loop of load_data (pages 3 and 4):
\*   geometry = feature.get("geometry", {}) or {}
\*   coordinates = geometry.get("coordinates", [])
\*   if not coordinates or len(coordinates) < 2: continue
\* The result is "skip", "append", or the exception raised.
load_data_step(geometry) ==
    LET coordinates == IF geometry.kind = "object" /\ geometry.coordinates.kind # "absent"
                       THEN geometry.coordinates ELSE JsonList(<<>>)
    IN  IF coordinates.kind = "null" \/ coordinates.items = <<>> THEN "skip"
        ELSE IF Len(coordinates.items) < 2 THEN "skip"
        ELSE "append"

\* One iteration of the loop of load_geojson (Home.py):
\*   coords = feature.get("geometry", {}).get("coordinates", [])
\*   if len(coords) >= 2: ... records.append(props)
\* None has no attribute get, and len(None) is a TypeError.
load_geojson_step(geometry) ==
    IF geometry.kind = "null" THEN "AttributeError"
    ELSE LET coords == IF geometry.kind = "object" /\ geometry.coordinates.kind # "absent"
                       THEN geometry.coordinates ELSE JsonList(<<>>)
         IN  IF coords.kind = "null" THEN "TypeError"
             ELSE IF Len(coords.items) >= 2 THEN "append"
             ELSE "skip"

LoaderStep(which, geometry) ==
    IF which = "home" THEN load_geojson_step(geometry) ELSE load_data_step(geometry)

\* The loop over the features from position i on, with the records appended
\* so far: it ends at the first exception.
RECURSIVE LoadLoop(_, _, _, _)
LoadLoop(which, features, i, appended) ==
    IF i > Len(features) THEN [error |-> "none", records |-> appended]
    ELSE LET step == LoaderStep(which, features[i])
         IN  CASE step = "append" -> LoadLoop(which, features, i + 1, Append(appended, i))
               [] step = "skip" -> LoadLoop(which, features, i + 1, appended)
               [] OTHER -> [error |-> step, records |-> appended]

\* The geometries of the features of a file.
GeometryUniverse ==
    { NoGeometry, NullGeometry, Geometry(Absent), Geometry(JsonNull),
      Geometry(JsonList(<<>>)), Geometry(JsonList(<< -51 >>)),
      Geometry(JsonList(<< -51, -23 >>)), Geometry(JsonList(<< -51, -23, 540 >>)) }

InitLoader ==
    /\ MatcherIdle
    /\ PipelineIdle
    /\ RuleIdle
    /\ PageIdle
    /\ ClusterIdle
    /\ SpatialIdle
    /\ loader \in { "page3", "page4", "home" }
    /\ collection \in SeqsUpTo(GeometryUniverse, MaxFeatures)
    /\ records = <<>>
    /\ load_error = "none"
    /\ lpc = "call"

\* The loader runs its loop over the features of the file.
Load ==
    /\ lpc = "call"
    /\ LET loop == LoadLoop(loader, collection, 1, <<>>)
       IN  /\ load_error' = loop.error
           /\ records' = (IF loop.error = "none" THEN loop.records ELSE <<>>)
           /\ lpc' = (IF loop.error = "none" THEN "loaded" ELSE "raised")
    /\ UNCHANGED <<loader, collection,
                   matcherVars, pipelineVars, ruleVars, pageVars, clusterVars, spatialVars>>

NextLoader == Load

SpecLoader == InitLoader /\ [][NextLoader]_vars

\* The positions of the features whose coordinate array has two elements
\* or more.
RECURSIVE Locatable(_, _)
Locatable(features, i) ==
    IF i > Len(features) THEN <<>>
    ELSE (IF /\ features[i].kind = "object"
             /\ features[i].coordinates.kind = "list"
             /\ Len(features[i].coordinates.items) >= 2
          THEN << i >> ELSE <<>>) \o Locatable(features, i + 1)

\* C24: every loader of the feature collection skips a feature whose
\* geometry is missing or null or whose coordinate array is missing, null or
\* shorter than two elements, and still loads all the remaining features;
\* such a feature never makes the whole load fail.
C24_LoadersSkipFeaturesWithoutCoordinates ==
    lpc # "call" =>
        /\ lpc = "loaded"
        /\ load_error = "none"
        /\ records = Locatable(collection, 1)

(***************************************************************************)
(* Frame of the Tokenizer run and of the Rule Classifier run.              *)
(***************************************************************************)

\* The properties of a record that the Tokenizer does not own.
NotTokenizerOwned(props) ==
    [ props EXCEPT !.keys = @ \ { TOKEN_PROPERTY }, !.descricao_tokens = TokNull ]

\* The properties of a record that the Classifier does not own.
NotClassifierOwned(props) ==
    << props.keys \ (RuleKeys \cup { CLUSTER_PROPERTY }), props.descricao,
       TOKEN_PROPERTY \in props.keys, props.descricao_tokens >>

\* C25: the Tokenizer run and the Rule Classifier run never delete or
\* reorder records: each writes back the features it read, in the same
\* order, and changes only its own derived properties; the Classifier leaves
\* the token sequence and every other property unchanged.
C25_RunsKeepRecordsAndForeignProperties ==
    /\ [][ geojson' # geojson =>
             /\ Len(geojson'.features) = Len(geojson.features)
             /\ output' = output
             /\ \A i \in DOMAIN geojson.features :
                   NotTokenizerOwned(geojson'.features[i])
                       = NotTokenizerOwned(geojson.features[i]) ]_vars
    /\ [](output.exists =>
             /\ Len(output.features) = Len(source.features)
             /\ \A i \in DOMAIN source.features :
                   NotClassifierOwned(output.features[i])
                       = NotClassifierOwned(source.features[i]))
    /\ [][ output' # output => geojson' = geojson ]_vars

\* Both programs have run on a file of two different records: a worded
\* description and a stored token list.
C25_Witness ==
    /\ tokenized
    /\ output.exists
    /\ Len(output.features) = 2
    /\ source = geojson
    /\ output.features[1].descricao = Text(MixedText)
    /\ output.features[2].descricao = Text(NightText)
    /\ output.features[1].descricao_tokens = geojson.features[1].descricao_tokens
    /\ output.features[1].tipo = "indefinido"

(***************************************************************************)
(* The record store between the Rule Classifier and the page               *)
(* pages/4_NLP_Filtros_&_Histogramas.py.                                   *)
(***************************************************************************)

GEOJSON_PATH == "mga_denuncias_20-23.geojson"
OUTPUT_GEOJSON_PATH == "mga_denuncias_20-23_modalidade.geojson"

\* load_data of the page opens "mga_denuncias_20-23.geojson".
PagePath == "mga_denuncias_20-23.geojson"

\* The content of the file at a path.
FileAt(path) ==
    CASE path = OUTPUT_GEOJSON_PATH -> output
      [] path = GEOJSON_PATH -> geojson
      [] OTHER -> NoFile

\* The value stored in a record under a key, or the default when the record
\* has no such key.
Lookup(props, key, default) ==
    IF key \notin props.keys THEN default
    ELSE CASE key = TYPE_PROPERTY -> props.tipo
           [] key = CONTEXT_PROPERTY -> props.contexto
           [] key = MODALITY_PROPERTY -> props.modalidade
           [] key = TIME_PROPERTY -> props.horario
           [] key = TOKEN_PROPERTY ->
                  (IF props.descricao_tokens.kind = "list"
                   THEN props.descricao_tokens.items ELSE default)
           [] OTHER -> default

\* The row that load_data of the page makes of a record: the columns
\* "fonte_contexto", "fonte_audio" and "Tipo de Fonte" are "" when the
\* records have no such key ("Tipo de Fonte" then becomes "indefinido"), the
\* columns "fonte_horario" and "descricao_tokens" are [].
load_data_row(props) ==
    Row(Lookup(props, "fonte_contexto", ""), Lookup(props, "fonte_audio", ""),
        Lookup(props, "fonte_horario", <<>>), Lookup(props, "descricao_tokens", <<>>))

load_data_tipo(props) ==
    IF Lookup(props, "Tipo de Fonte", "") = "" THEN "indefinido"
    ELSE Lookup(props, "Tipo de Fonte", "")

\* C26: the context, modality and source-type labels that the Rule
\* Classifier persists for a record are the values that the User-Defined
\* Rule Engine and the filters read for that record (same store, same
\* fields): a record labelled with context c and modality m satisfies the
\* user rule whose only constraints are contexts = {c} and modalities = {m}.
C26_PageReadsTheLabelsTheClassifierWrote ==
    output.exists =>
        \A i \in DOMAIN output.features :
            LET labelled == output.features[i]
                store == FileAt(PagePath)
            IN  (labelled.contexto # "" /\ labelled.modalidade # "") =>
                    /\ store.exists
                    /\ i \in DOMAIN store.features
                    /\ load_data_row(store.features[i]).fonte_contexto = labelled.contexto
                    /\ load_data_row(store.features[i]).fonte_audio = labelled.modalidade
                    /\ load_data_tipo(store.features[i]) = labelled.tipo
                    /\ _match_rule(load_data_row(store.features[i]),
                                   NewRule("regra", { labelled.contexto },
                                           { labelled.modalidade }, {}, {}))

(***************************************************************************)
(* Records that reach the Rule Classifier without a token sequence.        *)
(***************************************************************************)

\* The record has no token sequence and a description that is not empty.
NotYetTokenized(props) ==
    /\ (TOKEN_PROPERTY \notin props.keys \/ props.descricao_tokens.kind = "null")
    /\ DescricaoOf(props) # <<>>

\* C27: for every record the Rule Classifier runs the Tokenizer when the
\* record has no token sequence yet, so the labels of a record with a
\* non-empty description and no tokens are computed from the tokens of the
\* description and not from an empty token sequence.
C27_ClassifierTokenizesUntokenizedRecords ==
    output.exists =>
        \A i \in DOMAIN output.features :
            NotYetTokenized(source.features[i]) =>
                RuleFields(output.features[i])
                    = RuleFields(ClassifyFeature(TokenizeFeature(source.features[i])))

(***************************************************************************)
(* Order of the passes of the Spatial Cluster Engine.                      *)
(***************************************************************************)

\* The rows that the density pass did not label as noise.
NonNoiseRows == { i \in DOMAIN optics_labels : optics_labels[i] # -1 }

RECURSIVE SumQuantidade(_)
SumQuantidade(table) ==
    IF table = <<>> THEN 0 ELSE Head(table).quantidade + SumQuantidade(Tail(table))

\* C28: the partition pass, the cross-reference and the elbow diagnostic run
\* only after the density pass has produced labels, and on exactly the
\* points whose density label is not noise: no noise point receives a
\* partition id or contributes to a centroid, a count or an inertia, and
\* every non-noise point receives exactly one partition id.
C28_PartitionPassWorksOnTheNonNoisePoints ==
    /\ (df_clean # <<>> \/ medians_by_optics # <<>> \/ kmeans_labels # <<>>
          \/ optics_to_kmeans # <<>> \/ centroids_display # <<>> \/ wcss # <<>>) =>
          /\ optics_labels # <<>>
          /\ Len(df_clean) = Cardinality(NonNoiseRows)
          /\ \A i \in DOMAIN df_clean : df_clean[i] # -1
    /\ medians_by_optics # <<>> =>
          /\ SumQuantidade(medians_by_optics) = Cardinality(NonNoiseRows)
          /\ \A k \in DOMAIN medians_by_optics : medians_by_optics[k].cluster # -1
    /\ kmeans_labels # <<>> =>
          /\ Len(kmeans_labels) = Cardinality(NonNoiseRows)
          /\ \A i \in DOMAIN kmeans_labels : kmeans_labels[i] \in 0 .. (cluster_count - 1)
    /\ centroids_display # <<>> =>
          /\ SumQuantidade(centroids_display) = Cardinality(NonNoiseRows)
          /\ \A k \in DOMAIN centroids_display : centroids_display[k].cluster # -1
    /\ wcss # <<>> => (kmeans_labels # <<>> /\ Cardinality(NonNoiseRows) >= Len(wcss))

\* A run with noise rows and non-noise rows that reached the partition
\* pass: the partition has fewer labels than the file has points.
C28_Witness ==
    /\ kmeans_labels # <<>>
    /\ \E i \in DOMAIN optics_labels : optics_labels[i] = -1
    /\ Len(kmeans_labels) < Len(optics_labels)
    /\ spc \in { "elbow", "done", "raised" }

(***************************************************************************)
(* Tokenizer followed by the Time-Window Inferencer.                       *)
(***************************************************************************)

\* C29: across Tokenizer -> Time-Window Inferencer no record whose tokens
\* the Tokenizer produced is assigned the time windows "noite" or
\* "madrugada": the Tokenizer never emits "noite" or "madrugada" (both are
\* stopword extras) and never emits a token that holds a digit, so no hour
\* marker such as "22h" survives.  The lemmas of the model have a digit only
\* when the surface form has one.
C29_TokenizedRecordsGetNoNightWindow ==
    /\ tokenized =>
          \A i \in DOMAIN geojson.features :
              \A t \in DOMAIN geojson.features[i].descricao_tokens.items :
                  /\ geojson.features[i].descricao_tokens.items[t] \notin { "noite", "madrugada" }
                  /\ ~HasDigit(geojson.features[i].descricao_tokens.items[t])
    /\ (tokenized /\ output.exists /\ source = geojson) =>
          \A i \in DOMAIN output.features :
              \A w \in DOMAIN output.features[i].horario :
                  output.features[i].horario[w] \notin { "noite", "madrugada" }

\* The description "sirene noites noite 22h Sábado" was tokenized and
\* classified: the weekend is its only time window.
C29_Witness ==
    /\ tokenized
    /\ output.exists
    /\ source = geojson
    /\ \E i \in DOMAIN output.features :
          /\ output.features[i].descricao = Text(NightText)
          /\ output.features[i].descricao_tokens = TokList(<< "sirene", "sábado" >>)
          /\ output.features[i].horario = << "fim_de_semana" >>

(***************************************************************************)
(* The session rule list under add-rule and remove-rule.                   *)
(***************************************************************************)

====
